---- MODULE Spec2Model ----
(***************************************************************************)
(* A model of the dungeon-mark document-model compiler:                    *)
(*   - the Section-Tree Builder  (model/journal/entry.rs)                   *)
(*   - the Directive Preprocessor (build/preprocess/directive.rs)           *)
(*   - the Metadata Extractor     (build/transform/metadata.rs)             *)
(* Each component has its own specification over the shared variables; the  *)
(* variables of the other components stay at their initial values.         *)
(***************************************************************************)
EXTENDS Integers, Sequences, FiniteSets, TLC

(***************************************************************************)
(* Bounds of the model.                                                    *)
(***************************************************************************)
\* Longest document (in blocks: headings and paragraphs) given to the
\* section-tree builder.
MaxDoc == 4

\* Most pieces (see Parts) the entry bodies of one journal are put together
\* from, all entries taken together.
MaxParts == 3

\* The same for a journal of two entries.
MaxPairParts == 2

\* Metadata extractor: most blocks a section body is made of.
MaxBlocks == 3

\* Metadata extractor: most sections of a journal whose sections nest.
MaxSections == 3

\* TOC parser: most blocks and list items a TOC source is made of.
MaxToc == 3

\* TOC parser: the same for the sources on which termination is checked.
MaxTocLive == 2

\* Build: most entries the journal is loaded from.
MaxEntries == 2

\* Build: most renderers of a builder.
MaxRenderers == 3

\* Command renderer: the largest exit code of a renderer process.
MaxExit == 2

\* Journal loading: most items, nested ones included, of a table of contents.
MaxTocItems == 3

(***************************************************************************)
(* Generic helpers.                                                        *)
(***************************************************************************)
Min(S) == CHOOSE x \in S : \A y \in S : x <= y

Max(S) == CHOOSE x \in S : \A y \in S : x >= y

RECURSIVE Flatten(_)
Flatten(ss) == IF ss = <<>> THEN <<>> ELSE Head(ss) \o Flatten(Tail(ss))

SeqsUpTo(S, n) == UNION {[1..m -> S] : m \in 0..n}

\* Option<T>: None is the empty sequence, Some(x) the one-element sequence.
None == <<>>

Some(x) == <<x>>

(***************************************************************************)
(* SectionLevel / HeadingLevel: the closed ordinal H1..H6.                 *)
(***************************************************************************)
H1 == 1

H6 == 6

SectionLevel == H1..H6

(***************************************************************************)
(* Markdown text and the events of the tokenizer.  A text is the sequence  *)
(* of its blocks: a heading, a paragraph, a fenced code block with its     *)
(* info string, or the blank lines "\n\n".  id names the characters of the *)
(* block (its title, its text, its code), so that every piece of text is   *)
(* traceable.  The tokenizer turns a block into Start(tag), Text, End(tag) *)
(* and blank lines into nothing.                                           *)
(***************************************************************************)
Block(k, level, id, info) == [k |-> k, level |-> level, id |-> id, info |-> info]

HeadingBlock(level, id) == Block("Heading", level, id, <<>>)

ParagraphBlock(id) == Block("Paragraph", 0, id, <<>>)

FencedBlock(info, id) == Block("Fenced", 0, id, info)

\* The text "\n\n".
BlankLines == Block("Blank", 0, 0, <<>>)

Ev(k, tag, level, id, info) ==
    [k |-> k, tag |-> tag, level |-> level, id |-> id, info |-> info]

BlockEvents(b) ==
    IF b.k = "Blank" THEN <<>>
    ELSE <<Ev("Start", b.k, b.level, 0, b.info),
           Ev("Text", "", 0, b.id, <<>>),
           Ev("End", b.k, b.level, 0, b.info)>>

\* Parser::new(source).into_offset_iter(): the events of a text.
Tokenize(text) == Flatten([i \in 1..Len(text) |-> BlockEvents(text[i])])

IsStartHeading(e) == e.k = "Start" /\ e.tag = "Heading"

IsEndHeading(e) == e.k = "End" /\ e.tag = "Heading"

\* EventIteratorExt::stringify: the text the events render to.  A block's
\* three events render to the block, a text event alone renders to its
\* text, a start or end tag alone renders to nothing.
RECURSIVE Stringify(_)
Stringify(es) ==
    IF es = <<>> THEN <<>>
    ELSE IF /\ Len(es) >= 3
            /\ es[1].k = "Start" /\ es[2].k = "Text"
            /\ es[3].k = "End" /\ es[3].tag = es[1].tag
         THEN <<Block(es[1].tag, es[1].level, es[2].id, es[1].info)>>
                  \o Stringify(SubSeq(es, 4, Len(es)))
         ELSE IF es[1].k = "Text"
              THEN <<ParagraphBlock(es[1].id)>> \o Stringify(Tail(es))
              ELSE Stringify(Tail(es))

\* The document whose i-th block is a heading of level d[i], or a paragraph
\* where d[i] is Paragraph.
Paragraph == 0

MarkdownOf(d) ==
    [i \in 1..Len(d) |->
        IF d[i] = Paragraph THEN ParagraphBlock(i) ELSE HeadingBlock(d[i], i)]

(***************************************************************************)
(* Text.  A string is the sequence of its characters.                      *)
(***************************************************************************)
StartsWith(str, prefix) ==
    /\ Len(str) >= Len(prefix)
    /\ SubSeq(str, 1, Len(prefix)) = prefix

EndsWith(str, suffix) ==
    /\ Len(str) >= Len(suffix)
    /\ SubSeq(str, Len(str) - Len(suffix) + 1, Len(str)) = suffix

\* str::strip_prefix and str::strip_suffix.
StripPrefix(str, prefix) ==
    IF StartsWith(str, prefix)
    THEN Some(SubSeq(str, Len(prefix) + 1, Len(str)))
    ELSE None

StripSuffix(str, suffix) ==
    IF EndsWith(str, suffix)
    THEN Some(SubSeq(str, 1, Len(str) - Len(suffix)))
    ELSE None

\* memmem::Finder::find: the offset (from 0) of the first occurrence of the
\* needle in the haystack.
Find(needle, haystack) ==
    LET hits == {i \in 0..(Len(haystack) - Len(needle)) :
                    SubSeq(haystack, i + 1, i + Len(needle)) = needle}
    IN  IF hits = {} THEN None ELSE Some(Min(hits))

\* The slice str[from..to] (offsets from 0, `to` excluded).
Slice(str, from, to) == SubSeq(str, from + 1, to)

Whitespace == {" ", "\n"}

\* str::trim.
RECURSIVE TrimStart(_)
TrimStart(str) ==
    IF str # <<>> /\ Head(str) \in Whitespace THEN TrimStart(Tail(str)) ELSE str

RECURSIVE TrimEnd(_)
TrimEnd(str) ==
    IF str # <<>> /\ str[Len(str)] \in Whitespace
    THEN TrimEnd(SubSeq(str, 1, Len(str) - 1))
    ELSE str

Trim(str) == TrimEnd(TrimStart(str))

(***************************************************************************)
(* The info string of a metadata block (build/transform/metadata.rs).      *)
(***************************************************************************)
Comma == <<",">>

MetadataWord == <<"m", "e", "t", "a", "d", "a", "t", "a">>

\* tag.split(","): the fields between the commas.
RECURSIVE Split(_)
Split(tag) ==
    LET commas == {i \in 1..Len(tag) : <<tag[i]>> = Comma}
    IN  IF commas = {} THEN <<tag>>
        ELSE <<SubSeq(tag, 1, Min(commas) - 1)>>
                 \o Split(SubSeq(tag, Min(commas) + 1, Len(tag)))

\* tag.split(",").map(|part| part.trim()).collect()
TagParts(tag) == LET parts == Split(tag) IN [i \in 1..Len(parts) |-> Trim(parts[i])]

\* Variant used to test the properties: fields after the third are allowed.
IsMetadataBlockLoose(tag) ==
    LET parts == TagParts(tag)
    IN  Len(parts) >= 3 /\ parts[2] = MetadataWord

\* is_metadata_block: the parts match [_, "metadata", _].
IsMetadataBlock(tag) ==
    LET parts == TagParts(tag)
    IN  Len(parts) = 3 /\ parts[2] = MetadataWord

\* parse_metadata_tag: (lang, key).
ParseMetadataTag(tag) ==
    LET parts == TagParts(tag)
    IN  [lang |-> parts[1], key |-> parts[3]]

IsStartFenced(e) == e.k = "Start" /\ e.tag = "Fenced"

IsEndFenced(e) == e.k = "End" /\ e.tag = "Fenced"

IsStartMetadataBlock(e) == IsStartFenced(e) /\ IsMetadataBlock(e.info)

VARIABLES
    entry_body,   \* JournalEntry.body before parse: None or Some(document)
    events,       \* CMarkParser.events: the whole event stream
    pos,          \* number of events consumed from the stream
    epc,          \* where JournalEntry::parse is
    frames,       \* the active parse_section calls, outermost first
    sections,     \* parse_sections' local Vec<Section>, then JournalEntry.sections
    body,         \* the parsed preamble: None or Some(text)
    ignored       \* events dropped by the `Some(_) => ()` arm of parse_sections

entryVars == <<entry_body, events, pos, epc, frames, sections, body, ignored>>

VARIABLES
    journal,         \* the Journal handed to DirectivePreprocessor::run
    item,            \* index of the item the loop of run is at
    dpc,             \* where run is: "run", "scan", "ok" or "err"
    input,           \* preprocess_entry: the text still to be scanned
    processed_body,  \* preprocess_entry: the pieces pushed so far
    returned,        \* what run returned: None, or Some(journal) on Ok
    journal0,        \* history: the journal as it was handed to run
    dlog             \* history: per item, the directives dispatched

dirVars == <<journal, item, dpc, input, processed_body, returned, journal0, dlog>>

VARIABLES
    tjournal,    \* the Journal handed to MetadataTransformer::run
    tpc,         \* where run is: "run", "ok" or "err"
    visited,     \* number of sections the traversal has been through
    treturned,   \* what run returned: None, or Some(journal) on Ok
    runs,        \* history: how many times run was started
    tjournal0,   \* history: the journal as it was handed to the first run
    tjournal1,   \* history: the journal as it was handed to this run
    tlog         \* history: the visits of this run, in order

metaVars ==
    <<tjournal, tpc, visited, treturned, runs, tjournal0, tjournal1, tlog>>

VARIABLES
    toc_source,   \* history: the source handed to TOCParser::new
    toc_events,   \* CMarkParser.events of the TOC parser, each with its range
    toc_pos,      \* number of events consumed from the stream
    toc_offset,   \* CMarkParser.offset
    toc_pc,       \* where TOCParser::parse is: "title", "toc", "items", "ok", "err"
    toc_title,    \* the title parse_title returned
    toc_items,    \* parse_toc's local toc_items
    item_runs,    \* the `items` of the active parse_toc_items calls, outermost first
    toc_result,   \* what parse returned: None, Some(Ok) or Some(Err)
    toc_log,      \* history: what became of each list start and heading start
    toc_first     \* history: the events and the result of the parse before this one

tocVars ==
    <<toc_source, toc_events, toc_pos, toc_offset, toc_pc, toc_title, toc_items,
      item_runs, toc_result, toc_log, toc_first>>

VARIABLES
    renderers,      \* JournalBuilder.renderers after load_renderers
    build_entries,  \* the number of entries the table of contents links to
    faults,         \* what the collaborators of this build do
    build_pc,       \* where JournalBuilder::build is
    build_idx,      \* the entries or renderers the running loop has done
    build_log,      \* the calls made and their returns, oldest first
    build_result    \* the Result build returns, None before

buildVars ==
    <<renderers, build_entries, faults, build_pc, build_idx, build_log, build_result>>

VARIABLES
    cmd_renderer,     \* the CommandRenderer: its name and its command string
    cmd_world,        \* what the operating system and the child process do
    cmd_pc,           \* where CommandRenderer::render is
    cmd_process,      \* the child process, None before it is spawned
    cmd_log,          \* the steps render has taken, oldest first
    cmd_result       \* the Result render returns, None before

cmdVars ==
    <<cmd_renderer, cmd_world, cmd_pc, cmd_process, cmd_log, cmd_result>>

VARIABLES
    load_toc,         \* the builder's TableOfContents
    load_unreadable,  \* the locations whose file cannot be read
    load_pc,          \* where load_journal is
    load_result      \* the Result load_journal returns, None before

loadVars ==
    <<load_toc, load_unreadable, load_pc, load_result>>

vars == <<entryVars, dirVars, metaVars, tocVars, buildVars, cmdVars, loadVars>>

\* The variables each component leaves alone.
EntryFrame == UNCHANGED <<dirVars, metaVars, tocVars, buildVars, cmdVars, loadVars>>

DirFrame == UNCHANGED <<entryVars, metaVars, tocVars, buildVars, cmdVars, loadVars>>

MetaFrame == UNCHANGED <<entryVars, dirVars, tocVars, buildVars, cmdVars, loadVars>>

TocFrame == UNCHANGED <<entryVars, dirVars, metaVars, buildVars, cmdVars, loadVars>>

BuildFrame == UNCHANGED <<entryVars, dirVars, metaVars, tocVars, cmdVars, loadVars>>

CmdFrame == UNCHANGED <<entryVars, dirVars, metaVars, tocVars, buildVars, loadVars>>

LoadFrame == UNCHANGED <<entryVars, dirVars, metaVars, tocVars, buildVars, cmdVars>>

LoadIdle ==
    /\ load_toc = <<>>
    /\ load_unreadable = {}
    /\ load_pc = "idle"
    /\ load_result = <<>>

CmdIdle ==
    /\ cmd_renderer = <<>>
    /\ cmd_world = <<>>
    /\ cmd_pc = "idle"
    /\ cmd_process = <<>>
    /\ cmd_log = <<>>
    /\ cmd_result = <<>>

BuildIdle ==
    /\ renderers = <<>>
    /\ build_entries = 0
    /\ faults = <<>>
    /\ build_pc = "idle"
    /\ build_idx = 0
    /\ build_log = <<>>
    /\ build_result = <<>>

TocIdle ==
    /\ toc_source = <<>>
    /\ toc_events = <<>>
    /\ toc_pos = 0
    /\ toc_offset = 0
    /\ toc_pc = "idle"
    /\ toc_title = <<>>
    /\ toc_items = <<>>
    /\ item_runs = <<>>
    /\ toc_result = <<>>
    /\ toc_log = <<>>
    /\ toc_first = <<>>

MetaIdle ==
    /\ tjournal = <<>>
    /\ tpc = "idle"
    /\ visited = 0
    /\ treturned = <<>>
    /\ runs = 0
    /\ tjournal0 = <<>>
    /\ tjournal1 = <<>>
    /\ tlog = <<>>

DirIdle ==
    /\ journal = <<>>
    /\ item = 0
    /\ dpc = "idle"
    /\ input = <<>>
    /\ processed_body = <<>>
    /\ returned = <<>>
    /\ journal0 = <<>>
    /\ dlog = <<>>

EntryIdle ==
    /\ entry_body = <<>>
    /\ events = <<>>
    /\ pos = 0
    /\ epc = "idle"
    /\ frames = <<>>
    /\ sections = <<>>
    /\ body = <<>>
    /\ ignored = <<>>

(***************************************************************************)
(* Event cursor (cmark/parser.rs).                                         *)
(***************************************************************************)
\* peek_event: the next event, None at the end of the stream.
PeekEvent(es, p) == IF p < Len(es) THEN Some(es[p + 1]) ELSE None

\* A delimiter closure that matches every event.
DelimitsAny(delimeter, e) == TRUE

\* The delimiter closures handed to iter_until and iter_until_and_consume,
\* by name.
Delimits(delimeter, e) ==
    CASE delimeter = "StartHeading" -> IsStartHeading(e)
      [] delimeter = "EndHeading" -> IsEndHeading(e)
      [] delimeter = "EndFenced" -> IsEndFenced(e)
      [] delimeter = "EndHeadingH1" -> IsEndHeading(e) /\ e.level = H1
      [] delimeter = "EndLink" -> e.k = "End" /\ e.tag = "Link"
      [] delimeter = "StartMetadataBlock" -> IsStartMetadataBlock(e)

\* Index of the first event after p that satisfies the delimiter, or
\* Len(es) + 1 when there is none.
FirstMatch(es, p, delimeter) ==
    LET hits == {i \in (p + 1)..Len(es) : Delimits(delimeter, es[i])}
    IN  IF hits = {} THEN Len(es) + 1 ELSE Min(hits)

\* iter_until: yields the events before the delimiter; the delimiter is not
\* consumed.
IterUntil(es, p, delimeter) ==
    LET m == FirstMatch(es, p, delimeter)
    IN  [taken |-> SubSeq(es, p + 1, m - 1), pos |-> m - 1]

\* iter_until_and_consume: yields the events before the delimiter and
\* consumes the delimiter too.
IterUntilAndConsume(es, p, delimeter) ==
    LET m == FirstMatch(es, p, delimeter)
    IN  [taken |-> SubSeq(es, p + 1, m - 1),
         pos |-> IF m > Len(es) THEN Len(es) ELSE m]

\* HashMap::new()
EmptyMap == [key \in {} |-> None]

(***************************************************************************)
(* Section-Tree Builder (model/journal/entry.rs).                          *)
(***************************************************************************)
Section(title, level, text, children) ==
    [title |-> title, level |-> level, body |-> text, metadata |-> EmptyMap,
     sections |-> children]

\* Variants of the guard used to test the properties: a heading of the same
\* level nests, and a heading only one level deeper does not nest.
IsChildLevelOrEqual(heading_level, level) == heading_level >= level

IsChildLevelSkipping(heading_level, level) == heading_level > level + 1

\* The guard of the child loop of parse_section: `*heading_level > level`.
IsChildLevel(heading_level, level) == heading_level > level

Documents == {MarkdownOf(d) : d \in SeqsUpTo({Paragraph} \cup SectionLevel, MaxDoc)}

InitEntry ==
    /\ entry_body \in {None} \cup {Some(d) : d \in Documents}
    /\ events = <<>>
    /\ pos = 0
    /\ epc = "parse"
    /\ frames = <<>>
    /\ sections = <<>>
    /\ body = None
    /\ ignored = <<>>
    /\ DirIdle
    /\ MetaIdle
    /\ TocIdle
    /\ BuildIdle
    /\ CmdIdle
    /\ LoadIdle

\* JournalEntry::parse with body None: the entry is returned as it is.
ParseNoBody ==
    /\ epc = "parse"
    /\ entry_body = None
    /\ epc' = "done"
    /\ UNCHANGED <<entry_body, events, pos, frames, sections, body, ignored>>
    /\ EntryFrame

\* parse_body's last step with the mistake of keeping an empty text.
BodyOptionKeepsEmpty(text) == Some(text)

\* parse_body's last step: an empty rendered text is no body.
BodyOption(text) == IF text = <<>> THEN None ELSE Some(text)

\* JournalEntry::parse with a body: JournalEntryParser::new, then parse_body,
\* which renders every event before the first heading start.
ParseBody ==
    /\ epc = "parse"
    /\ entry_body # None
    /\ LET es == Tokenize(entry_body[1])
           r  == IterUntil(es, 0, "StartHeading")
           s  == Stringify(r.taken)
       IN  /\ events' = es
           /\ pos' = r.pos
           /\ body' = BodyOption(s)
    /\ epc' = "parse_sections"
    /\ UNCHANGED <<entry_body, frames, sections, ignored>>
    /\ EntryFrame

\* sections.push with the mistake of pushing in front.
PushFront(vec, sec) == <<sec>> \o vec

\* sections.push(section).
Push(vec, sec) == Append(vec, sec)

\* parse_section with the mistake of dropping the text under the heading.
EnterSectionDropsBody(p, level) ==
    LET t == IterUntilAndConsume(events, p, "EndHeading")
        b == IterUntil(events, t.pos, "StartHeading")
    IN  [frame |-> Section(Stringify(t.taken), level, <<>>, <<>>),
         pos |-> b.pos]

\* The frame of a parse_section call after its title and body were read.
EnterSection(p, level) ==
    LET t == IterUntilAndConsume(events, p, "EndHeading")
        b == IterUntil(events, t.pos, "StartHeading")
    IN  [frame |-> Section(Stringify(t.taken), level, Stringify(b.taken), <<>>),
         pos |-> b.pos]

\* parse_sections, one turn of the loop on Some(event): a heading start calls
\* parse_section, which reads the title and the body; any other event is
\* ignored (`Some(_) => ()`).
SectionsNext ==
    /\ epc = "parse_sections"
    /\ frames = <<>>
    /\ PeekEvent(events, pos) # None
    /\ IF IsStartHeading(events[pos + 1])
       THEN LET r == EnterSection(pos + 1, events[pos + 1].level)
            IN  /\ frames' = <<r.frame>>
                /\ pos' = r.pos
                /\ UNCHANGED ignored
       ELSE /\ pos' = pos + 1
            /\ ignored' = Append(ignored, events[pos + 1])
            /\ UNCHANGED frames
    /\ UNCHANGED <<entry_body, events, epc, sections, body>>
    /\ EntryFrame

\* parse_sections: the stream is exhausted; parse returns and
\* JournalEntry::parse stores the body and the sections.
SectionsEnd ==
    /\ epc = "parse_sections"
    /\ frames = <<>>
    /\ PeekEvent(events, pos) = None
    /\ epc' = "done"
    /\ UNCHANGED <<entry_body, events, pos, frames, sections, body, ignored>>
    /\ EntryFrame

\* parse_section's loop: the next event is a heading start of a deeper
\* level; it is consumed and parse_section recurses.
SectionChild ==
    /\ epc = "parse_sections"
    /\ frames # <<>>
    /\ PeekEvent(events, pos) # None
    /\ IsStartHeading(events[pos + 1])
    /\ IsChildLevel(events[pos + 1].level, frames[Len(frames)].level)
    /\ LET r == EnterSection(pos + 1, events[pos + 1].level)
       IN  /\ frames' = Append(frames, r.frame)
           /\ pos' = r.pos
    /\ UNCHANGED <<entry_body, events, epc, sections, body, ignored>>
    /\ EntryFrame

\* parse_section's loop breaks (any other event, or the end of the stream):
\* the Section is returned and pushed by the caller.
SectionReturn ==
    /\ epc = "parse_sections"
    /\ frames # <<>>
    /\ \/ PeekEvent(events, pos) = None
       \/ /\ PeekEvent(events, pos) # None
          /\ ~(/\ IsStartHeading(events[pos + 1])
               /\ IsChildLevel(events[pos + 1].level, frames[Len(frames)].level))
    /\ LET n   == Len(frames)
           sec == frames[n]
       IN  IF n = 1
           THEN /\ sections' = Push(sections, sec)
                /\ frames' = <<>>
           ELSE /\ frames' = [SubSeq(frames, 1, n - 1) EXCEPT
                                 ![n - 1].sections = Push(@, sec)]
                /\ UNCHANGED sections
    /\ UNCHANGED <<entry_body, events, pos, epc, body, ignored>>
    /\ EntryFrame

NextEntry ==
    \/ ParseNoBody
    \/ ParseBody
    \/ SectionsNext
    \/ SectionsEnd
    \/ SectionChild
    \/ SectionReturn

SpecEntry == InitEntry /\ [][NextEntry]_vars

(***************************************************************************)
(* Properties of the Section-Tree Builder.                                 *)
(***************************************************************************)
\* The levels of the sections strictly below sec.
RECURSIVE SubtreeLevels(_)
SubtreeLevels(sec) ==
    UNION {{sec.sections[i].level} \cup SubtreeLevels(sec.sections[i]) :
               i \in 1..Len(sec.sections)}

RECURSIVE DeeperBelow(_)
DeeperBelow(sec) ==
    /\ \A l \in SubtreeLevels(sec) : l > sec.level
    /\ \A i \in 1..Len(sec.sections) : DeeperBelow(sec.sections[i])

RECURSIVE CountSections(_)
CountSections(secs) ==
    IF secs = <<>> THEN 0
    ELSE 1 + CountSections(Head(secs).sections) + CountSections(Tail(secs))

HeadingLevels(d) ==
    LET hs == SelectSeq(d, LAMBDA b : b.k = "Heading")
    IN  [i \in 1..Len(hs) |-> hs[i].level]

ParsedDocument == IF entry_body = None THEN <<>> ELSE entry_body[1]

\* C1: after (and while) the builder parses a document, every section in
\* the subtree of a section S has a level strictly greater than S's level.
\* Stated for the finished sections, for the sections of the active calls
\* and for the chain of active calls, which become each other's children.
C1_SubtreeStrictlyDeeper ==
    /\ \A i \in 1..Len(sections) : DeeperBelow(sections[i])
    /\ \A j \in 1..Len(frames) : DeeperBelow(frames[j])
    /\ \A j \in 1..Len(frames) : \A k \in 1..Len(frames) :
           j < k => frames[k].level > frames[j].level

\* A finished parse with a section nested two levels deep beside a sibling.
C1_Witness ==
    /\ epc = "done"
    /\ Len(sections) >= 2
    /\ \E i \in 1..Len(sections) :
           /\ sections[i].sections # <<>>
           /\ sections[i].sections[1].sections # <<>>

\* follower is the level of the section that follows the subtrees of secs
\* in document order (0: there is none).
RECURSIVE FollowerNotDeeper(_, _)
FollowerNotDeeper(secs, follower) ==
    \A i \in 1..Len(secs) :
        LET f == IF i < Len(secs) THEN secs[i + 1].level ELSE follower
        IN  /\ f # 0 => f <= secs[i].level
            /\ FollowerNotDeeper(secs[i].sections, f)

NonIncreasing(ls) == \A i \in 1..(Len(ls) - 1) : ls[i + 1] <= ls[i]

\* C2: in the parsed tree the section that follows the subtree of a section
\* S in document order has a level <= S's level; every heading sequence is
\* accepted (one section per heading); and headings that never get deeper
\* (such as H3, H2, H1) all become top-level siblings.
C2_FollowerNotDeeper ==
    epc = "done" =>
        /\ FollowerNotDeeper(sections, 0)
        /\ CountSections(sections) = Len(HeadingLevels(ParsedDocument))
        /\ NonIncreasing(HeadingLevels(ParsedDocument)) =>
               /\ Len(sections) = Len(HeadingLevels(ParsedDocument))
               /\ \A i \in 1..Len(sections) : sections[i].sections = <<>>

\* H3, H2, H1 parsed into three top-level siblings.
C2_Witness ==
    /\ epc = "done"
    /\ HeadingLevels(ParsedDocument) = <<3, 2, 1>>
    /\ Len(sections) = 3
    /\ \A i \in 1..3 : sections[i].level = 4 - i

(***************************************************************************)
(* Directive Preprocessor (build/preprocess/directive.rs).                 *)
(***************************************************************************)
OPEN_SEQUENCE == <<"{", "{", "#">>

CLOSE_SEQUENCE == <<"}", "}">>

TitleKeyword == <<"t", "i", "t", "l", "e">>

IncludeKeyword == <<"i", "n", "c", "l", "u", "d", "e">>

\* The pieces entry bodies are put together from.
PartText == <<"x">>

PartTitleA == OPEN_SEQUENCE \o TitleKeyword \o <<" ", "A", " ">> \o CLOSE_SEQUENCE

PartTitleB == OPEN_SEQUENCE \o TitleKeyword \o <<" ", "B">> \o CLOSE_SEQUENCE

PartTitled == OPEN_SEQUENCE \o TitleKeyword \o <<"x">> \o CLOSE_SEQUENCE

PartInclude == OPEN_SEQUENCE \o IncludeKeyword \o <<" ", "f">> \o CLOSE_SEQUENCE

Parts == {PartText, OPEN_SEQUENCE, CLOSE_SEQUENCE, PartTitleA, PartTitled, PartInclude}

\* The bodies of the tests of directive.rs and of the specification.
BodyTwoTitles == PartTitleA \o <<" ">> \o PartTitleB

BodyUnbalanced == CLOSE_SEQUENCE \o <<"t", "e", "s", "t">> \o OPEN_SEQUENCE

BodyNoClosure == OPEN_SEQUENCE \o IncludeKeyword

TestBodies == {BodyTwoTitles, BodyUnbalanced, BodyNoClosure}

\* What fs::read_to_string may give for an include target: an error (None)
\* or the contents of the file.
ReadResults ==
    {None, Some(PartText), Some(PartTitleB),
     Some(CLOSE_SEQUENCE \o PartText \o OPEN_SEQUENCE)}

TestTitle == <<"T", "e", "s", "t">>

\* A JournalItem: an Entry (title, body, path) or a ChapterTitle / Separator.
EntryItem(title, text, path) ==
    [kind |-> "Entry", title |-> title, body |-> text, path |-> path,
     sections |-> <<>>]

OtherItem ==
    [kind |-> "Separator", title |-> <<>>, body |-> None, path |-> None,
     sections |-> <<>>]

PartSeqs(n) == [1..n -> Parts]

\* The bodies made of exactly n pieces, and of at most n pieces.
BodiesOf(n) == {Flatten(ps) : ps \in PartSeqs(n)}

BodiesUpTo(n) == UNION {BodiesOf(m) : m \in 0..n}

EntryPaths == {None, Some(<<"e">>)}

SingleEntries ==
    {EntryItem(TestTitle, b, path) :
        b \in {None} \cup {Some(t) : t \in BodiesUpTo(MaxParts) \cup TestBodies},
        path \in EntryPaths}

\* Two entries loaded from files.
EntryPairs ==
    UNION {{<<EntryItem(TestTitle, Some(b1), Some(<<"e">>)),
              EntryItem(TestTitle, Some(b2), Some(<<"e">>))>> :
               b1 \in BodiesOf(n), b2 \in BodiesUpTo(MaxPairParts - n)} :
           n \in 0..MaxPairParts}

\* Journal.items: one entry, a separator before one entry, or two entries.
Journals ==
    {<<e>> : e \in SingleEntries} \cup {<<OtherItem, e>> : e \in SingleEntries}
        \cup EntryPairs

NoLog == [steps |-> <<>>, rest |-> <<>>, finished |-> FALSE]

InitDirective ==
    /\ journal \in Journals
    /\ journal0 = journal
    /\ item = 1
    /\ dpc = "run"
    /\ input = <<>>
    /\ processed_body = <<>>
    /\ returned = None
    /\ dlog = [i \in 1..Len(journal) |-> NoLog]
    /\ EntryIdle
    /\ MetaIdle
    /\ TocIdle
    /\ BuildIdle
    /\ CmdIdle
    /\ LoadIdle

\* The result of preprocess_directive: whether it is Ok, the title of the
\* entry afterwards, the replacement, and whether fs::read_to_string ran.
DirectiveResult(ok, title, replacement, read) ==
    [ok |-> ok, title |-> title, replacement |-> replacement, read |-> read]

\* Variants used to test the properties: the first title directive wins, and
\* an unmatched directive is dropped.
TitleDirectiveFirstWins(entry, title) ==
    DirectiveResult(TRUE, IF entry.title = TestTitle THEN Trim(title) ELSE entry.title,
                    <<>>, FALSE)

UnmatchedDirectiveDropped(entry, directive) ==
    DirectiveResult(TRUE, entry.title, <<>>, FALSE)

\* preprocess_directive, "Directive was a title replacement".
TitleDirective(entry, title) == DirectiveResult(TRUE, Trim(title), <<>>, FALSE)

\* preprocess_directive, "Unmatched directive, leave it be".
UnmatchedDirective(entry, directive) ==
    DirectiveResult(TRUE, entry.title, directive, FALSE)

\* preprocess_directive.  file is what fs::read_to_string gives if called.
PreprocessDirective(entry, directive, file) ==
    LET opened == StripPrefix(directive, OPEN_SEQUENCE)
    IN  IF opened = None THEN DirectiveResult(FALSE, entry.title, <<>>, FALSE)
        ELSE
        LET closed == StripSuffix(opened[1], CLOSE_SEQUENCE)
        IN  IF closed = None THEN DirectiveResult(FALSE, entry.title, <<>>, FALSE)
            ELSE
            LET parsed_directive == closed[1]
                title == StripPrefix(parsed_directive, TitleKeyword)
                path  == StripPrefix(parsed_directive, IncludeKeyword)
            IN  IF title # None
                THEN TitleDirective(entry, title[1])
                ELSE IF path # None
                THEN IF entry.path = None
                     THEN DirectiveResult(FALSE, entry.title, <<>>, FALSE)
                     ELSE IF file = None
                     THEN DirectiveResult(FALSE, entry.title, <<>>, TRUE)
                     ELSE DirectiveResult(TRUE, entry.title, file[1], TRUE)
                ELSE UnmatchedDirective(entry, directive)

\* The outcomes of fs::read_to_string that matter to this call: all of them
\* when the call reads a file, a single one when it does not.
ReadsFor(entry, directive) ==
    IF PreprocessDirective(entry, directive, None).read THEN ReadResults ELSE {None}

ScanResult(kind, start, end) == [kind |-> kind, start |-> start, end |-> end]

\* Variant used to test the properties: a missing close marker ends the scan.
ScanDirectiveLenient(inp) ==
    LET start == Find(OPEN_SEQUENCE, inp)
        close == Find(CLOSE_SEQUENCE, inp)
    IN  IF start = None \/ close = None THEN ScanResult("done", 0, 0)
        ELSE LET end == close[1] + Len(CLOSE_SEQUENCE)
             IN  IF start[1] >= end
                 THEN ScanResult("err", start[1], end)
                 ELSE ScanResult("directive", start[1], end)

\* One turn of the loop of preprocess_entry up to the slicing of the
\* directive: "done" when no open marker is left, "err" when the close
\* marker is missing or lies before the open marker, else the span found.
ScanDirective(inp) ==
    LET start == Find(OPEN_SEQUENCE, inp)
        close == Find(CLOSE_SEQUENCE, inp)
    IN  IF start = None THEN ScanResult("done", 0, 0)
        ELSE IF close = None THEN ScanResult("err", start[1], 0)
        ELSE LET end == close[1] + Len(CLOSE_SEQUENCE)
             IN  IF start[1] >= end
                 THEN ScanResult("err", start[1], end)
                 ELSE ScanResult("directive", start[1], end)

\* Variant used to test the properties: the replacement is scanned too.
RestOfInputRescanned(inp, end, replacement) ==
    replacement \o Slice(inp, end, Len(inp))

\* `input = &input[end..]`: the text scanned next (the replacement is not
\* part of it).
RestOfInput(inp, end, replacement) == Slice(inp, end, Len(inp))

\* `entry.body = Some(processed_body.join(""))`: the pieces pushed in the
\* loop; what is left of the input is not among them.
JoinedBody(pieces, rest) == Flatten(pieces)

\* run: the loop is over; Ok(journal).
RunDone ==
    /\ dpc = "run"
    /\ item > Len(journal)
    /\ dpc' = "ok"
    /\ returned' = Some(journal)
    /\ UNCHANGED <<journal, item, input, processed_body, journal0, dlog>>
    /\ DirFrame

\* run: an item that is no Entry is skipped (`continue`), and so is an Entry
\* without a body (preprocess_entry returns Ok at once).
SkipItem ==
    /\ dpc = "run"
    /\ item <= Len(journal)
    /\ \/ journal[item].kind # "Entry"
       \/ journal[item].body = None
    /\ item' = item + 1
    /\ UNCHANGED <<journal, dpc, input, processed_body, returned, journal0, dlog>>
    /\ DirFrame

\* preprocess_entry: the body is cloned into input.
BeginEntry ==
    /\ dpc = "run"
    /\ item <= Len(journal)
    /\ journal[item].kind = "Entry"
    /\ journal[item].body # None
    /\ input' = journal[item].body[1]
    /\ processed_body' = <<>>
    /\ dpc' = "scan"
    /\ UNCHANGED <<journal, item, returned, journal0, dlog>>
    /\ DirFrame

\* preprocess_entry: one turn of the loop that replaces a directive.
DirectiveStep ==
    /\ dpc = "scan"
    /\ LET scan == ScanDirective(input)
           directive == Slice(input, scan.start, scan.end)
       IN  /\ scan.kind = "directive"
           /\ \E file \in ReadsFor(journal[item], directive) :
                 LET r == PreprocessDirective(journal[item], directive, file)
                     rest == RestOfInput(input, scan.end, r.replacement)
                 IN  /\ r.ok
                     /\ journal' = [journal EXCEPT ![item].title = r.title]
                     /\ processed_body' = processed_body \o
                            <<Slice(input, 0, scan.start), r.replacement>>
                     /\ input' = rest
                     /\ dlog' = [dlog EXCEPT ![item].steps = Append(@,
                            [before |-> Slice(input, 0, scan.start),
                             directive |-> directive, replacement |-> r.replacement,
                             title_before |-> journal[item].title,
                             title_after |-> r.title, read |-> r.read,
                             rest |-> rest])]
    /\ UNCHANGED <<item, dpc, returned, journal0>>
    /\ DirFrame

\* preprocess_entry bails (unmatched markers, or preprocess_directive
\* fails); run returns the error and the journal is dropped.
DirectiveFail ==
    /\ dpc = "scan"
    /\ LET scan == ScanDirective(input)
           directive == Slice(input, scan.start, scan.end)
       IN  \/ scan.kind = "err"
           \/ /\ scan.kind = "directive"
              /\ \E file \in ReadsFor(journal[item], directive) :
                    ~PreprocessDirective(journal[item], directive, file).ok
    /\ dpc' = "err"
    /\ returned' = None
    /\ UNCHANGED <<journal, item, input, processed_body, journal0, dlog>>
    /\ DirFrame

\* preprocess_entry: no open marker is left; the body is stored.
FinishEntry ==
    /\ dpc = "scan"
    /\ ScanDirective(input).kind = "done"
    /\ journal' = [journal EXCEPT ![item].body = Some(JoinedBody(processed_body, input))]
    /\ dlog' = [dlog EXCEPT ![item].rest = input, ![item].finished = TRUE]
    /\ item' = item + 1
    /\ dpc' = "run"
    /\ UNCHANGED <<input, processed_body, returned, journal0>>
    /\ DirFrame

NextDirective ==
    \/ RunDone
    \/ SkipItem
    \/ BeginEntry
    \/ DirectiveStep
    \/ DirectiveFail
    \/ FinishEntry

SpecDirective == InitDirective /\ [][NextDirective]_vars

(***************************************************************************)
(* Properties of the Directive Preprocessor.                               *)
(***************************************************************************)
Steps(i) == dlog[i].steps

\* The scanned text put together again with the directives, and with their
\* replacements.
Original(steps) ==
    Flatten([k \in 1..Len(steps) |-> steps[k].before \o steps[k].directive])

Rebuilt(steps) ==
    Flatten([k \in 1..Len(steps) |-> steps[k].before \o steps[k].replacement])

FinishedItems == {i \in 1..Len(dlog) : dlog[i].finished}

\* C3: when the scan of an entry body succeeds, the new body is the
\* original body with each directive span replaced by its replacement and
\* every character outside the spans kept, the text after the last
\* directive included (a body without an open marker is kept whole).
C3_TextOutsideDirectivesKept ==
    \A i \in FinishedItems :
        /\ journal0[i].body = Some(Original(Steps(i)) \o dlog[i].rest)
        /\ journal[i].body = Some(Rebuilt(Steps(i)) \o dlog[i].rest)

\* The positions (from 0) of a marker in a text.
Occurrences(marker, text) ==
    {i \in 0..(Len(text) - Len(marker)) : SubSeq(text, i + 1, i + Len(marker)) = marker}

\* An open marker is found, and no close marker exists or the first close
\* marker lies before that open marker.
UnmatchedMarkers(text) ==
    LET opens  == Occurrences(OPEN_SEQUENCE, text)
        closes == Occurrences(CLOSE_SEQUENCE, text)
    IN  /\ opens # {}
        /\ \/ closes = {}
           \/ Min(closes) < Min(opens)

\* C4: whenever the text still to be scanned has an open marker and no
\* close marker, or its first close marker before that open marker, the
\* next step is the failure of run, which returns no journal; the bodies
\* `}}test{{#` and `{{#include` never lead to Ok.
C4_UnmatchedMarkersFail ==
    [][/\ (dpc = "scan" /\ UnmatchedMarkers(input)) =>
              (dpc' = "err" /\ returned' = None)
       /\ dpc' = "ok" =>
              \A i \in 1..Len(journal0) :
                  journal0[i].body \notin {Some(BodyUnbalanced), Some(BodyNoClosure)}]_vars

\* run failed on the body `}}test{{#`.
C4_Witness ==
    /\ dpc = "err"
    /\ returned = None
    /\ journal0[item].body = Some(BodyUnbalanced)
    /\ input = BodyUnbalanced

\* A title directive is one whose text after the open marker begins with
\* `title`; its text is what lies between the keyword and the close marker.
IsTitleDirective(d) == StartsWith(d, OPEN_SEQUENCE \o TitleKeyword)

IsIncludeDirective(d) == StartsWith(d, OPEN_SEQUENCE \o IncludeKeyword)

TitleText(d) ==
    Trim(Slice(d, Len(OPEN_SEQUENCE) + Len(TitleKeyword), Len(d) - Len(CLOSE_SEQUENCE)))

TitleSteps(steps) == {k \in 1..Len(steps) : IsTitleDirective(steps[k].directive)}

IncludedContents == {r[1] : r \in ReadResults \ {None}}

\* C7: the text substituted for an include directive is not scanned: the
\* text still to be scanned is always a suffix of the original body, so
\* that every directive dispatched comes from the original body; the
\* included content is put into the body as it is and does not change the
\* title.
C7_IncludedTextNotScanned ==
    \A i \in 1..Len(dlog) :
        /\ (i = item /\ dpc \in {"scan", "err"}) =>
              journal0[i].body = Some(Original(Steps(i)) \o input)
        /\ dlog[i].finished =>
              /\ journal0[i].body = Some(Original(Steps(i)) \o dlog[i].rest)
              /\ StartsWith(journal[i].body[1], Rebuilt(Steps(i)))
        /\ \A k \in 1..Len(Steps(i)) :
              LET st == Steps(i)[k]
              IN  IsIncludeDirective(st.directive) =>
                     /\ st.read
                     /\ st.replacement \in IncludedContents
                     /\ st.title_after = st.title_before

\* An included file that holds `{{#title B}}` and trailing text: the content
\* is in the body, the title is still Test and run returned Ok.
C7_Witness ==
    /\ dpc = "ok"
    /\ journal0[1].body = Some(PartInclude \o PartInclude)
    /\ journal[1].body = Some(PartTitleB \o CLOSE_SEQUENCE \o PartText \o OPEN_SEQUENCE)
    /\ journal[1].title = TestTitle

(***************************************************************************)
(* Metadata Extractor (build/transform/metadata.rs).                       *)
(***************************************************************************)
\* HashMap::insert
Insert(map, key, value) ==
    [k \in DOMAIN map \cup {key} |-> IF k = key THEN value ELSE map[k]]

\* Variant used to test the properties: the map of this run replaces the
\* map of the section.
MergeMetadataReplace(old, new) == new

\* section.metadata.extend(metadata)
MergeMetadata(old, new) ==
    [k \in DOMAIN old \cup DOMAIN new |-> IF k \in DOMAIN new THEN new[k] ELSE old[k]]

SectionMetadata(lang, data) == [lang |-> lang, data |-> data]

\* The peek loop of extract_metadata from position p of the events: the
\* pieces of the body joined, the metadata of this run, and how many blocks
\* were taken out.
RECURSIVE ExtractLoop(_, _, _, _, _)
ExtractLoop(es, p, text, metadata, extracted) ==
    IF PeekEvent(es, p) = None
    THEN [body |-> text, metadata |-> metadata, extracted |-> extracted]
    ELSE IF IsStartMetadataBlock(es[p + 1])
    THEN LET tag == ParseMetadataTag(es[p + 1].info)
             block == IterUntilAndConsume(es, p + 1, "EndFenced")
             section_meta == SectionMetadata(tag.lang, Stringify(block.taken))
         IN  ExtractLoop(es, block.pos, text \o <<BlankLines>>,
                         Insert(metadata, tag.key, section_meta), extracted + 1)
    ELSE LET piece == IterUntil(es, p, "StartMetadataBlock")
         IN  ExtractLoop(es, piece.pos, text \o Stringify(piece.taken),
                         metadata, extracted)

\* extract_metadata returning Ok: the section afterwards.
ExtractMetadata(section) ==
    LET run == ExtractLoop(Tokenize(section.body), 0, <<>>, EmptyMap, 0)
    IN  [section EXCEPT !.body = run.body,
                        !.metadata = MergeMetadata(@, run.metadata)]

\* How many blocks extract_metadata takes out of the section.
Extracted(section) ==
    ExtractLoop(Tokenize(section.body), 0, <<>>, EmptyMap, 0).extracted

\* Variant used to test the properties: a section before its children.
RECURSIVE TryForEachOrderParentFirst(_, _)
TryForEachOrderParentFirst(secs, prefix) ==
    Flatten([i \in 1..Len(secs) |->
        <<prefix \o <<i>>>>
            \o TryForEachOrderParentFirst(secs[i].sections, prefix \o <<i>>)])

\* try_for_each_mut: the paths of the sections in the order func is called
\* on them.  A path is the sequence of indices from the entry down.
RECURSIVE TryForEachOrder(_, _)
TryForEachOrder(secs, prefix) ==
    Flatten([i \in 1..Len(secs) |->
        TryForEachOrder(secs[i].sections, prefix \o <<i>>)
            \o <<prefix \o <<i>>>>])

\* The loop of run over journal.items: every section of every entry, in
\* the order extract_metadata is called on it.
VisitOrder(items) ==
    Flatten([i \in 1..Len(items) |->
        IF items[i].kind = "Entry"
        THEN LET order == TryForEachOrder(items[i].sections, <<>>)
             IN  [n \in 1..Len(order) |-> [item |-> i, path |-> order[n]]]
        ELSE <<>>])

\* The section a path leads to.
RECURSIVE SectionAt(_, _)
SectionAt(secs, path) ==
    IF Len(path) = 1 THEN secs[path[1]]
    ELSE SectionAt(secs[path[1]].sections, Tail(path))

\* The sections with the section at path mutated into section.
RECURSIVE ReplaceAt(_, _, _)
ReplaceAt(secs, path, section) ==
    [secs EXCEPT ![path[1]] =
        IF Len(path) = 1 THEN section
        ELSE [@ EXCEPT !.sections = ReplaceAt(@, Tail(path), section)]]

\* Info strings of fenced code blocks.
Lang == <<"l">>

OtherLang == <<"j">>

Key == <<"k">>

OtherKey == <<"q">>

Space == <<" ">>

InfoTagged == Lang \o Comma \o MetadataWord \o Comma \o Key

InfoSpaced ==
    OtherLang \o Comma \o Space \o MetadataWord \o Space \o Comma \o Space \o Key

InfoOtherKey == Lang \o Comma \o MetadataWord \o Comma \o OtherKey

InfoPlain == Lang

InfoTwoFields == Lang \o Comma \o MetadataWord

InfoFourFields == InfoTagged \o Comma \o OtherKey

InfoFirstField == MetadataWord \o Comma \o Lang \o Comma \o Key

InfoLonger == Lang \o Comma \o MetadataWord \o Key \o Comma \o Key

Infos ==
    {InfoTagged, InfoSpaced, InfoOtherKey, InfoPlain, InfoTwoFields,
     InfoFourFields, InfoFirstField, InfoLonger}

\* A section body: paragraphs (None) and fenced code blocks (Some(info)).
BodyOf(d) ==
    [i \in 1..Len(d) |->
        IF d[i] = None THEN ParagraphBlock(i) ELSE FencedBlock(d[i][1], i)]

Bodies == {BodyOf(d) : d \in SeqsUpTo({None} \cup {Some(info) : info \in Infos}, MaxBlocks)}

\* The bodies of the sections of a journal whose sections nest.
NestedBodies == {<<>>, BodyOf(<<Some(InfoTagged)>>)}

\* The section trees of n sections, as parse leaves them: children are
\* deeper than their parent.
RECURSIVE Forests(_, _)
Forests(n, level) ==
    IF n = 0 THEN {<<>>}
    ELSE IF level > H6 THEN {}
    ELSE UNION {{<<Section(<<>>, level, b, children)>> \o rest :
                    b \in NestedBodies,
                    children \in Forests(k, level + 1),
                    rest \in Forests(n - 1 - k, level)} : k \in 0..(n - 1)}

EntryWith(secs) == [EntryItem(TestTitle, None, None) EXCEPT !.sections = secs]

\* Journal.items: one entry of one section, one entry, a separator before
\* one entry, or two entries.
TransformJournals ==
    {<<EntryWith(<<Section(<<>>, H1, b, <<>>)>>)>> : b \in Bodies}
        \cup UNION {{<<EntryWith(f)>> : f \in Forests(n, H1)} : n \in 0..MaxSections}
        \cup UNION {{<<OtherItem, EntryWith(f)>> : f \in Forests(n, H1)} :
                        n \in 1..(MaxSections - 1)}
        \cup UNION {{<<EntryWith(f), EntryWith(g)>> :
                        f \in Forests(n[1], H1), g \in Forests(n[2], H1)} :
                        n \in {m \in (0..MaxSections) \X (0..MaxSections) :
                                  m[1] + m[2] <= MaxSections}}

InitTransform ==
    /\ tjournal \in TransformJournals
    /\ tjournal0 = tjournal
    /\ tjournal1 = tjournal
    /\ tpc = "run"
    /\ visited = 0
    /\ treturned = None
    /\ runs = 1
    /\ tlog = <<>>
    /\ EntryIdle
    /\ DirIdle
    /\ TocIdle
    /\ BuildIdle
    /\ CmdIdle
    /\ LoadIdle

Visit(item_, path, ok, extracted) ==
    [item |-> item_, path |-> path, ok |-> ok, extracted |-> extracted]

\* extract_metadata returns Ok for the next section of the traversal.
VisitSection ==
    /\ tpc = "run"
    /\ visited < Len(VisitOrder(tjournal))
    /\ LET next == VisitOrder(tjournal)[visited + 1]
           section == SectionAt(tjournal[next.item].sections, next.path)
       IN  /\ tjournal' = [tjournal EXCEPT ![next.item].sections =
                              ReplaceAt(@, next.path, ExtractMetadata(section))]
           /\ tlog' = Append(tlog, Visit(next.item, next.path, TRUE, Extracted(section)))
    /\ visited' = visited + 1
    /\ UNCHANGED <<tpc, treturned, runs, tjournal0, tjournal1>>
    /\ MetaFrame

\* stringify fails in extract_metadata for the next section: `?` returns the
\* error from try_for_each_mut and from run, and the section is not assigned.
VisitFails ==
    /\ tpc = "run"
    /\ visited < Len(VisitOrder(tjournal))
    /\ LET next == VisitOrder(tjournal)[visited + 1]
       IN  tlog' = Append(tlog, Visit(next.item, next.path, FALSE, 0))
    /\ visited' = visited + 1
    /\ tpc' = "err"
    /\ UNCHANGED <<tjournal, treturned, runs, tjournal0, tjournal1>>
    /\ MetaFrame

\* The loop of run is through: Ok(journal).
TransformDone ==
    /\ tpc = "run"
    /\ visited = Len(VisitOrder(tjournal))
    /\ tpc' = "ok"
    /\ treturned' = Some(tjournal)
    /\ UNCHANGED <<tjournal, visited, runs, tjournal0, tjournal1, tlog>>
    /\ MetaFrame

\* run is called a second time, on the journal the first call returned.
RunAgain ==
    /\ tpc = "ok"
    /\ runs = 1
    /\ tjournal' = treturned[1]
    /\ tjournal1' = treturned[1]
    /\ tpc' = "run"
    /\ visited' = 0
    /\ treturned' = None
    /\ runs' = runs + 1
    /\ tlog' = <<>>
    /\ UNCHANGED tjournal0
    /\ MetaFrame

NextTransform == VisitSection \/ VisitFails \/ TransformDone \/ RunAgain

SpecTransform == InitTransform /\ [][NextTransform]_vars

(***************************************************************************)
(* Properties of the metadata extractor.                                   *)
(***************************************************************************)
\* The positions of the commas of an info string.
Commas(info) == {i \in 1..Len(info) : info[i] = ","}

\* An info string of exactly three comma-separated fields whose middle
\* field, trimmed, is `metadata`.
TaggedMetadata(info) ==
    /\ Cardinality(Commas(info)) = 2
    /\ Trim(SubSeq(info, Min(Commas(info)) + 1, Max(Commas(info)) - 1)) = MetadataWord

FirstField(info) == Trim(SubSeq(info, 1, Min(Commas(info)) - 1))

ThirdField(info) == Trim(SubSeq(info, Max(Commas(info)) + 1, Len(info)))

TaggedBlocks(text) ==
    {i \in 1..Len(text) : text[i].k = "Fenced" /\ TaggedMetadata(text[i].info)}

\* The text of a block on its own.
Enclosed(b) == <<ParagraphBlock(b.id)>>

\* The section of the journal a visit is about.
SectionOf(items, v) == SectionAt(items[v.item].sections, v.path)

\* C8: a section the first run has been through holds, block for block, its
\* original body with exactly the fenced blocks whose info string has three
\* trimmed fields, the middle one `metadata`, replaced by blank lines; every
\* other block, a fenced block with another info string included, is where
\* and what it was; and its metadata has exactly the third fields of the
\* replaced blocks as keys, each with the first field as lang and the
\* enclosed text as data of the last block of that key.
C8_OnlyTaggedBlocksExtracted ==
    runs = 1 =>
        \A n \in DOMAIN tlog :
            tlog[n].ok =>
                LET before == SectionOf(tjournal0, tlog[n]).body
                    after == SectionOf(tjournal, tlog[n])
                    tagged == TaggedBlocks(before)
                IN  /\ Len(after.body) = Len(before)
                    /\ \A i \in DOMAIN before :
                           after.body[i] = IF i \in tagged THEN BlankLines ELSE before[i]
                    /\ tlog[n].extracted = Cardinality(tagged)
                    /\ DOMAIN after.metadata = {ThirdField(before[i].info) : i \in tagged}
                    /\ \A i \in tagged :
                           (\A j \in tagged :
                                j > i => ThirdField(before[j].info) # ThirdField(before[i].info))
                               => after.metadata[ThirdField(before[i].info)]
                                      = [lang |-> FirstField(before[i].info),
                                         data |-> Enclosed(before[i])]

\* A run over a body of a plain fenced block, a metadata block and a
\* paragraph has returned: the metadata block alone was taken out.
C8_Witness ==
    /\ tpc = "ok"
    /\ runs = 1
    /\ Len(tjournal0) = 1
    /\ Len(tjournal0[1].sections) = 1
    /\ tjournal0[1].sections[1].body = BodyOf(<<Some(InfoPlain), Some(InfoTagged), None>>)
    /\ tjournal[1].sections[1].body
           = <<FencedBlock(InfoPlain, 1), BlankLines, ParagraphBlock(3)>>
    /\ DOMAIN tjournal[1].sections[1].metadata = {Key}
    /\ tjournal[1].sections[1].metadata[Key] = SectionMetadata(Lang, <<ParagraphBlock(2)>>)

\* A text without its blank lines: what is left of it once it has been
\* through the tokenizer and back.
WithoutBlankLines(text) == SelectSeq(text, LAMBDA b : b.k # "Blank")

\* C9: a section the second run has been through had no block taken out by
\* that run, has the metadata it had after the first run, and has the body
\* it had after the first run, blank lines aside.
C9_SecondRunChangesNothing ==
    runs = 2 =>
        \A n \in DOMAIN tlog :
            tlog[n].ok =>
                LET first == SectionOf(tjournal1, tlog[n])
                    second == SectionOf(tjournal, tlog[n])
                IN  /\ tlog[n].extracted = 0
                    /\ second.metadata = first.metadata
                    /\ WithoutBlankLines(second.body) = WithoutBlankLines(first.body)

\* The second run has returned for a journal whose first run took a block
\* out of a section that also keeps other blocks.
C9_Witness ==
    /\ tpc = "ok"
    /\ runs = 2
    /\ \E n \in DOMAIN tlog :
           /\ DOMAIN SectionOf(tjournal1, tlog[n]).metadata # {}
           /\ BlankLines \in {SectionOf(tjournal1, tlog[n]).body[i] :
                                 i \in DOMAIN SectionOf(tjournal1, tlog[n]).body}
           /\ WithoutBlankLines(SectionOf(tjournal, tlog[n]).body) # <<>>

\* The paths of all sections of a tree.
RECURSIVE Paths(_)
Paths(secs) ==
    UNION {{<<i>>} \cup {<<i>> \o q : q \in Paths(secs[i].sections)} : i \in 1..Len(secs)}

AllSections(items) ==
    UNION {{[item |-> i, path |-> q] : q \in Paths(items[i].sections)} :
              i \in {k \in 1..Len(items) : items[k].kind = "Entry"}}

IsProperPrefix(q, r) == Len(q) < Len(r) /\ SubSeq(r, 1, Len(q)) = q

\* Section a comes before section b: it is in an earlier entry, or it is
\* below b, or, neither being below the other, it is in an earlier branch.
ComesBefore(a, b) ==
    \/ a.item < b.item
    \/ /\ a.item = b.item
       /\ \/ IsProperPrefix(b.path, a.path)
          \/ \E d \in 1..Min({Len(a.path), Len(b.path)}) :
                 /\ SubSeq(a.path, 1, d - 1) = SubSeq(b.path, 1, d - 1)
                 /\ a.path[d] < b.path[d]

Where(v) == [item |-> v.item, path |-> v.path]

\* C10: the visits of a run are visits of sections of the journal, no
\* section twice, each after all sections that come before it (those of
\* earlier entries, those below it, those of earlier branches) and after no
\* other; a run that returned Ok has visited every section; a failed visit is
\* the last one, and the run has returned the error and no journal.
C10_ChildrenFirstHaltAtFailure ==
    /\ \A n \in DOMAIN tlog : Where(tlog[n]) \in AllSections(tjournal)
    /\ \A m, n \in DOMAIN tlog : m # n => Where(tlog[m]) # Where(tlog[n])
    /\ \A n \in DOMAIN tlog :
           {Where(tlog[m]) : m \in 1..(n - 1)}
               = {a \in AllSections(tjournal) : ComesBefore(a, Where(tlog[n]))}
    /\ tpc = "ok" =>
           /\ {Where(tlog[n]) : n \in DOMAIN tlog} = AllSections(tjournal)
           /\ \A n \in DOMAIN tlog : tlog[n].ok
    /\ \A n \in DOMAIN tlog :
           ~tlog[n].ok => n = Len(tlog) /\ tpc = "err" /\ treturned = None
    /\ tpc = "err" => tlog # <<>> /\ ~tlog[Len(tlog)].ok

\* A run failed at a section after its child and before its sibling.
C10_Witness ==
    /\ tpc = "err"
    /\ Len(tlog) = 2
    /\ tlog[1].path = <<1, 1>>
    /\ tlog[1].ok
    /\ tlog[2].path = <<1>>
    /\ [item |-> tlog[2].item, path |-> <<2>>] \in AllSections(tjournal)

(***************************************************************************)
(* TOC source (model/toc.rs).  A source is a sequence of blocks: a heading *)
(* of some level, a raw-HTML comment, a thematic break, or a list.  The    *)
(* items of a list are a link followed by further blocks of that item, a   *)
(* text that is not a link, or nothing.  Each block and each item has a    *)
(* line to itself, indented by two columns per enclosing item; a list      *)
(* starts where its first item starts.                                     *)
(***************************************************************************)
TocNode(k, level, sub) == [k |-> k, level |-> level, sub |-> sub]

HeadingNode(level) == TocNode("Heading", level, <<>>)

HtmlNode == TocNode("Html", 0, <<>>)

RuleNode == TocNode("Rule", 0, <<>>)

ListNode(list_items) == TocNode("List", 0, list_items)

LinkNode(rest) == TocNode("Link", 0, rest)

TextNode == TocNode("Text", 0, <<>>)

EmptyNode == TocNode("Empty", 0, <<>>)

\* A block quote of blocks; its first block starts on the line of the quote.
QuoteNode(quoted) == TocNode("Quote", 0, quoted)

\* The length of every line of a source, its newline included.
LineLen == 16

RECURSIVE Lines(_)
Lines(node) ==
    LET below == [i \in 1..Len(node.sub) |-> Lines(node.sub[i])]
        Sum[i \in 0..Len(below)] == IF i = 0 THEN 0 ELSE Sum[i - 1] + below[i]
    IN  (IF node.k = "List" \/ (node.k = "Quote" /\ node.sub # <<>>) THEN 0 ELSE 1)
            + Sum[Len(below)]

\* An event of the offset iterator with the start of its range.
Ranged(e, start) ==
    [k |-> e.k, tag |-> e.tag, level |-> e.level, id |-> e.id, info |-> e.info,
     start |-> start]

Tag(k, tag, level, start) == Ranged(Ev(k, tag, level, 0, <<>>), start)

\* The href of the link that starts at an offset, and its text.
Href(start) == <<start>>

LinkEvents(start) ==
    <<Ranged(Ev("Start", "Link", 0, 0, Href(start)), start),
      Ranged(Ev("Text", "", 0, start, <<>>), start),
      Ranged(Ev("End", "Link", 0, 0, Href(start)), start)>>

\* An inline payload of an item: in a paragraph when the list is loose.
Payload(inline, start, loose) ==
    IF loose
    THEN <<Tag("Start", "Paragraph", 0, start)>> \o inline
             \o <<Tag("End", "Paragraph", 0, start)>>
    ELSE inline

\* Parser::new(source).into_offset_iter() for a TOC source: the events of
\* the blocks that start at a line, with their ranges.
RECURSIVE NodeEvents(_, _, _, _)
RECURSIVE NodesEvents(_, _, _, _)
NodesEvents(nodes, line, indent, loose) ==
    IF nodes = <<>> THEN <<>>
    ELSE NodeEvents(Head(nodes), line, indent, loose)
             \o NodesEvents(Tail(nodes), line + Lines(Head(nodes)), indent, loose)

NodeEvents(node, line, indent, loose) ==
    LET start == (line - 1) * LineLen + indent
    IN  CASE node.k = "Heading" ->
                <<Tag("Start", "Heading", node.level, start),
                  Ranged(Ev("Text", "", 0, start, <<>>), start),
                  Tag("End", "Heading", node.level, start)>>
          [] node.k = "Html" -> <<Tag("Html", "", 0, start)>>
          [] node.k = "Rule" -> <<Tag("Rule", "", 0, start)>>
          [] node.k = "List" ->
                <<Tag("Start", "List", 0, start)>>
                    \o NodesEvents(node.sub, line, indent, loose)
                    \o <<Tag("End", "List", 0, start)>>
          [] node.k = "Link" ->
                <<Tag("Start", "Item", 0, start)>>
                    \o Payload(LinkEvents(start + 2), start + 2, loose)
                    \o NodesEvents(node.sub, line + 1, indent + 2, loose)
                    \o <<Tag("End", "Item", 0, start)>>
          [] node.k = "Text" ->
                <<Tag("Start", "Item", 0, start)>>
                    \o Payload(<<Ranged(Ev("Text", "", 0, start + 2, <<>>), start + 2)>>,
                               start + 2, loose)
                    \o <<Tag("End", "Item", 0, start)>>
          [] node.k = "Empty" ->
                <<Tag("Start", "Item", 0, start), Tag("End", "Item", 0, start)>>
          [] node.k = "Quote" ->
                <<Tag("Start", "BlockQuote", 0, start)>>
                    \o NodesEvents(node.sub, line, indent + 2, loose)
                    \o <<Tag("End", "BlockQuote", 0, start)>>

TocSource(blocks, loose) == [blocks |-> blocks, loose |-> loose]

TocTokenize(source) == NodesEvents(source.blocks, 1, 0, source.loose)

\* CMarkParser::position for the sources above: the newline of line n is
\* the character n * LineLen - 1.
Position(offset) ==
    LET newlines == offset \div LineLen
        start_of_line == IF newlines = 0 THEN 0 ELSE newlines * LineLen - 1
    IN  [line |-> newlines + 1, column |-> offset - start_of_line]

H2 == 2

\* The sequences of blocks of n blocks and items in all, and the non-empty
\* sequences of list items of n blocks and items in all.
RECURSIVE TocBlocks(_)
RECURSIVE TocListItems(_)
TocBlocks(n) ==
    IF n = 0 THEN {<<>>}
    ELSE UNION {{<<first>> \o rest :
                    first \in (IF m = 1
                               THEN {HeadingNode(H1), HeadingNode(H2), HtmlNode, RuleNode}
                               ELSE {}) \cup {ListNode(l) : l \in TocListItems(m)},
                    rest \in TocBlocks(n - m)} : m \in 1..n}

TocListItems(n) ==
    IF n = 0 THEN {}
    ELSE UNION {{<<first>> \o rest :
                    first \in (IF m = 1 THEN {TextNode, EmptyNode} ELSE {})
                                 \cup {LinkNode(r) : r \in TocBlocks(m - 1)},
                    rest \in (IF n = m THEN {<<>>} ELSE TocListItems(n - m))} :
                        m \in 1..n}

TocSources ==
    {TocSource(blocks, loose) :
        blocks \in UNION {TocBlocks(n) : n \in 0..MaxToc}, loose \in BOOLEAN}

(***************************************************************************)
(* TOC Parser (model/toc.rs).                                              *)
(***************************************************************************)
TOCItem(kind, name, location, nested_items) ==
    [kind |-> kind, name |-> name, location |-> location,
     nested_items |-> nested_items]

\* parse_link: the href is not empty, so the location is Some(href).
Link(name, href) == TOCItem("Link", name, Some(href), <<>>)

SectionTitle(heading) == TOCItem("SectionTitle", heading, None, <<>>)

Separator == TOCItem("Separator", <<>>, None, <<>>)

TocOk(heading, its) == [ok |-> TRUE, title |-> heading, items |-> its, position |-> None]

\* parse_error: the error carries position().
TocErr(position) == [ok |-> FALSE, title |-> None, items |-> <<>>, position |-> Some(position)]

\* Vec::new()
Vec == <<>>

Logged(what, at, outcome, depth, name) ==
    [what |-> what, at |-> at, outcome |-> outcome, depth |-> depth, name |-> name]

InitToc ==
    /\ toc_source \in TocSources
    /\ toc_events = TocTokenize(toc_source)
    /\ toc_pos = 0
    /\ toc_offset = 0
    /\ toc_pc = "title"
    /\ toc_title = None
    /\ toc_items = <<>>
    /\ item_runs = <<>>
    /\ toc_result = None
    /\ toc_log = <<>>
    /\ toc_first = None
    /\ EntryIdle
    /\ DirIdle
    /\ MetaIdle
    /\ BuildIdle
    /\ CmdIdle
    /\ LoadIdle

\* Variant used to test the properties: a heading of any level matches.
IsStartAnyLevel(e) == IsStartHeading(e)

\* Event::Start(Tag::Heading(HeadingLevel::H1, ..))
IsStartH1(e) == IsStartHeading(e) /\ e.level = H1

IsStart(e, tag) == e.k = "Start" /\ e.tag = tag

TocPeek == PeekEvent(toc_events, toc_pos)

PeekIsStartH1 == TocPeek # None /\ IsStartH1(TocPeek[1])

\* Variant used to test the properties: thematic breaks are skipped too.
SkippedBeforeTitleOrRule(e) == e.k = "Html" \/ e.k = "Rule"

\* parse_title: Some(Event::Html(_)) is skipped.
SkippedBeforeTitle(e) == e.k = "Html"

\* next_event up to position p: the cursor and the offset of the event
\* consumed last.
ConsumeTo(p) ==
    /\ toc_pos' = p
    /\ toc_offset' = IF p > toc_pos THEN toc_events[p].start ELSE toc_offset

\* The heading whose start was peeked: next_event, then
\* iter_until_and_consume(End(Heading(H1))).stringify().
PeekedHeading == IterUntilAndConsume(toc_events, toc_pos + 1, "EndHeadingH1")

\* parse_title, a level-1 heading comes first: it is the title.
TitleHeading ==
    /\ toc_pc = "title"
    /\ PeekIsStartH1
    /\ ConsumeTo(PeekedHeading.pos)
    /\ toc_title' = Some(Stringify(PeekedHeading.taken))
    /\ toc_pc' = "toc"
    /\ toc_log' = Append(toc_log, Logged("heading", toc_pos + 1, "title", 0,
                                        Stringify(PeekedHeading.taken)))
    /\ UNCHANGED <<toc_source, toc_events, toc_items, item_runs, toc_result>>
    /\ UNCHANGED toc_first
    /\ TocFrame

\* parse_title: raw HTML is skipped.
TitleSkipHtml ==
    /\ toc_pc = "title"
    /\ TocPeek # None
    /\ ~IsStartH1(TocPeek[1])
    /\ SkippedBeforeTitle(TocPeek[1])
    /\ ConsumeTo(toc_pos + 1)
    /\ UNCHANGED <<toc_source, toc_events, toc_pc, toc_title, toc_items,
                   item_runs, toc_result, toc_log>>
    /\ UNCHANGED toc_first
    /\ TocFrame

\* parse_title, anything else or the end of the stream: there is no title.
TitleNone ==
    /\ toc_pc = "title"
    /\ IF TocPeek = None THEN TRUE
       ELSE ~IsStartH1(TocPeek[1]) /\ ~SkippedBeforeTitle(TocPeek[1])
    /\ toc_title' = None
    /\ toc_pc' = "toc"
    /\ UNCHANGED <<toc_source, toc_events, toc_pos, toc_offset, toc_items,
                   item_runs, toc_result, toc_log>>
    /\ UNCHANGED toc_first
    /\ TocFrame

\* parse_toc, a level-1 heading is next: a SectionTitle is pushed and
\* parse_toc_items is called.
TocSection ==
    /\ toc_pc = "toc"
    /\ PeekIsStartH1
    /\ ConsumeTo(PeekedHeading.pos)
    /\ toc_items' = Append(toc_items, SectionTitle(Stringify(PeekedHeading.taken)))
    /\ item_runs' = <<Vec>>
    /\ toc_pc' = "items"
    /\ toc_log' = Append(toc_log, Logged("heading", toc_pos + 1, "section", 0,
                                        Stringify(PeekedHeading.taken)))
    /\ UNCHANGED <<toc_source, toc_events, toc_title, toc_result>>
    /\ UNCHANGED toc_first
    /\ TocFrame

\* parse_toc, another event is next: parse_toc_items is called.
TocOther ==
    /\ toc_pc = "toc"
    /\ TocPeek # None
    /\ ~IsStartH1(TocPeek[1])
    /\ item_runs' = <<Vec>>
    /\ toc_pc' = "items"
    /\ UNCHANGED <<toc_source, toc_events, toc_pos, toc_offset, toc_title,
                   toc_items, toc_result, toc_log>>
    /\ UNCHANGED toc_first
    /\ TocFrame

\* parse_toc at the end of the stream: parse returns Ok((title, items)).
TocEnd ==
    /\ toc_pc = "toc"
    /\ TocPeek = None
    /\ toc_pc' = "ok"
    /\ toc_result' = Some(TocOk(toc_title, toc_items))
    /\ UNCHANGED <<toc_source, toc_events, toc_pos, toc_offset, toc_title,
                   toc_items, item_runs, toc_log>>
    /\ UNCHANGED toc_first
    /\ TocFrame

\* The `items` of the parse_toc_items call that is running.
Items == item_runs[Len(item_runs)]

\* Variant used to test the properties: the new items go in front.
ExtendFront(vec, its) == its \o vec

\* Vec::extend
Extend(vec, its) == vec \o its

\* parse_toc_items returns Ok(its): to parse_toc, which extends toc_items, or
\* to the parse_toc_items call that assigns them to the nested_items of its
\* last item.
ReturnItems(its) ==
    IF Len(item_runs) = 1
    THEN /\ toc_items' = Extend(toc_items, its)
         /\ item_runs' = <<>>
         /\ toc_pc' = "toc"
    ELSE /\ item_runs' =
                [SubSeq(item_runs, 1, Len(item_runs) - 1) EXCEPT
                    ![Len(item_runs) - 1] = [@ EXCEPT ![Len(@)].nested_items = its]]
         /\ toc_pc' = "items"
         /\ UNCHANGED toc_items

\* The `items` of the running call become its.
SetItems(its) == item_runs' = [item_runs EXCEPT ![Len(item_runs)] = its]

\* parse_toc_items, a level-1 heading is next: the run ends and the heading
\* is left in the stream.
ItemsHeading ==
    /\ toc_pc = "items"
    /\ PeekIsStartH1
    /\ ReturnItems(Items)
    /\ toc_log' = Append(toc_log, Logged("heading", toc_pos + 1, "break", Len(item_runs), <<>>))
    /\ UNCHANGED <<toc_source, toc_events, toc_pos, toc_offset, toc_title,
                   toc_result>>
    /\ UNCHANGED toc_first
    /\ TocFrame

\* parse_toc_item: the event after the item start and after any paragraph
\* starts, as an index (Len + 1 at the end of the stream).
ItemPayload(p) ==
    Min({i \in (p + 1)..Len(toc_events) : ~IsStart(toc_events[i], "Paragraph")}
            \cup {Len(toc_events) + 1})

\* Variant used to test the properties: a text is taken for a link.
IsLinkPayloadOrText(es, q) == q <= Len(es) /\ (IsStart(es[q], "Link") \/ es[q].k = "Text")

\* parse_toc_item: Some(Event::Start(Tag::Link(..)))
IsLinkPayload(es, q) == q <= Len(es) /\ IsStart(es[q], "Link")

\* parse_toc_items, an item start is next and its payload is a link:
\* parse_link reads the name through the end of the link.
ItemsLink ==
    /\ toc_pc = "items"
    /\ TocPeek # None
    /\ IsStart(TocPeek[1], "Item")
    /\ IsLinkPayload(toc_events, ItemPayload(toc_pos + 1))
    /\ LET q == ItemPayload(toc_pos + 1)
           name == IterUntilAndConsume(toc_events, q, "EndLink")
       IN  /\ ConsumeTo(name.pos)
           /\ SetItems(Append(Items, Link(Stringify(name.taken), toc_events[q].info)))
           /\ toc_log' = Append(toc_log, Logged("link", toc_pos + 1, "push", Len(item_runs),
                                                Stringify(name.taken)))
    /\ UNCHANGED <<toc_source, toc_events, toc_pc, toc_title, toc_items,
                   toc_result>>
    /\ UNCHANGED toc_first
    /\ TocFrame

\* parse_toc_items, an item start is next and its payload is not a link:
\* bail!(parse_error(..)), which `?` hands down to parse.
ItemsFail ==
    /\ toc_pc = "items"
    /\ TocPeek # None
    /\ IsStart(TocPeek[1], "Item")
    /\ ~IsLinkPayload(toc_events, ItemPayload(toc_pos + 1))
    /\ ConsumeTo(Min({ItemPayload(toc_pos + 1), Len(toc_events)}))
    /\ toc_pc' = "err"
    /\ toc_result' = Some(TocErr(Position(toc_offset')))
    /\ toc_log' = Append(toc_log, Logged("item", toc_pos + 1, "fail", Len(item_runs), <<>>))
    /\ UNCHANGED <<toc_source, toc_events, toc_title, toc_items, item_runs>>
    /\ UNCHANGED toc_first
    /\ TocFrame

\* Variant used to test the properties: a list after any item nests.
ListOutcomeAlwaysNests(its) == IF its = <<>> THEN "skip" ELSE "nest"

\* What the list arm of parse_toc_items does with a list start: nothing when
\* items is empty, a recursive call when the last item is a link, nothing
\* otherwise.
ListOutcome(its) ==
    IF its = <<>> THEN "skip"
    ELSE IF its[Len(its)].kind = "Link" THEN "nest"
    ELSE "flat"

\* parse_toc_items, a list start is next.
ItemsList ==
    /\ toc_pc = "items"
    /\ TocPeek # None
    /\ IsStart(TocPeek[1], "List")
    /\ ConsumeTo(toc_pos + 1)
    /\ item_runs' = IF ListOutcome(Items) = "nest" THEN Append(item_runs, Vec)
                    ELSE item_runs
    /\ toc_log' = Append(toc_log,
                         Logged("list", toc_pos + 1, ListOutcome(Items), Len(item_runs),
                                IF Items = <<>> THEN <<>> ELSE Items[Len(Items)].name))
    /\ UNCHANGED <<toc_source, toc_events, toc_pc, toc_title, toc_items,
                   toc_result>>
    /\ UNCHANGED toc_first
    /\ TocFrame

\* parse_toc_items, a list end is next: it is consumed and the run ends.
ItemsEndList ==
    /\ toc_pc = "items"
    /\ TocPeek # None
    /\ TocPeek[1].k = "End" /\ TocPeek[1].tag = "List"
    /\ ConsumeTo(toc_pos + 1)
    /\ ReturnItems(Items)
    /\ UNCHANGED <<toc_source, toc_events, toc_title, toc_result, toc_log>>
    /\ UNCHANGED toc_first
    /\ TocFrame

\* A skipping loop that takes no event.
MatchingEndStays(es, p) == p

\* The end tag the skipping loop stops after: the first event equal to
\* End(other_tag), or the end of the stream.
MatchingEnd(es, p) ==
    LET ends == {i \in (p + 1)..Len(es) :
                    /\ es[i].k = "End"
                    /\ es[i].tag = es[p + 1].tag
                    /\ es[i].level = es[p + 1].level
                    /\ es[i].info = es[p + 1].info}
    IN  IF ends = {} THEN Len(es) ELSE Min(ends)

\* parse_toc_items, another start tag is next: events are consumed through
\* its end tag.
ItemsSkipTag ==
    /\ toc_pc = "items"
    /\ TocPeek # None
    /\ TocPeek[1].k = "Start"
    /\ ~IsStartH1(TocPeek[1])
    /\ TocPeek[1].tag \notin {"Item", "List"}
    /\ ConsumeTo(MatchingEnd(toc_events, toc_pos))
    /\ UNCHANGED <<toc_source, toc_events, toc_pc, toc_title, toc_items,
                   item_runs, toc_result, toc_log>>
    /\ UNCHANGED toc_first
    /\ TocFrame

\* parse_toc_items, a thematic break is next: a Separator is pushed.
ItemsRule ==
    /\ toc_pc = "items"
    /\ TocPeek # None
    /\ TocPeek[1].k = "Rule"
    /\ ConsumeTo(toc_pos + 1)
    /\ SetItems(Append(Items, Separator))
    /\ UNCHANGED <<toc_source, toc_events, toc_pc, toc_title, toc_items,
                   toc_result, toc_log>>
    /\ UNCHANGED toc_first
    /\ TocFrame

\* parse_toc_items, any other event is next: it is consumed.
ItemsSkip ==
    /\ toc_pc = "items"
    /\ TocPeek # None
    /\ TocPeek[1].k \notin {"Start", "Rule"}
    /\ ~(TocPeek[1].k = "End" /\ TocPeek[1].tag = "List")
    /\ ConsumeTo(toc_pos + 1)
    /\ UNCHANGED <<toc_source, toc_events, toc_pc, toc_title, toc_items,
                   item_runs, toc_result, toc_log>>
    /\ UNCHANGED toc_first
    /\ TocFrame

\* parse_toc_items at the end of the stream: the run ends.
ItemsEnd ==
    /\ toc_pc = "items"
    /\ TocPeek = None
    /\ ReturnItems(Items)
    /\ UNCHANGED <<toc_source, toc_events, toc_pos, toc_offset, toc_title,
                   toc_result, toc_log>>
    /\ UNCHANGED toc_first
    /\ TocFrame

\* A raw-HTML comment or a heading of level 2 to 6.
IsCommentOrMinorHeading(node) ==
    node.k = "Html" \/ (node.k = "Heading" /\ node.level >= H2)

\* The blocks without the comments and the headings of level 2 to 6, at
\* every depth.
RECURSIVE Stripped(_)
Stripped(nodes) ==
    LET kept == SelectSeq(nodes, LAMBDA node : ~IsCommentOrMinorHeading(node))
    IN  [i \in 1..Len(kept) |-> [kept[i] EXCEPT !.sub = Stripped(@)]]

\* parse has returned, and a second parser is made for the same source
\* without its comments and headings of level 2 to 6.
ParseStripped ==
    /\ toc_pc \in {"ok", "err"}
    /\ toc_first = None
    /\ Stripped(toc_source.blocks) # toc_source.blocks
    /\ toc_first' = Some([events |-> toc_events, result |-> toc_result[1]])
    /\ toc_source' = TocSource(Stripped(toc_source.blocks), toc_source.loose)
    /\ toc_events' = TocTokenize(toc_source')
    /\ toc_pos' = 0
    /\ toc_offset' = 0
    /\ toc_pc' = "title"
    /\ toc_title' = None
    /\ toc_items' = <<>>
    /\ item_runs' = <<>>
    /\ toc_result' = None
    /\ toc_log' = <<>>
    /\ TocFrame

NextToc ==
    \/ TitleHeading \/ TitleSkipHtml \/ TitleNone
    \/ TocSection \/ TocOther \/ TocEnd
    \/ ItemsHeading \/ ItemsLink \/ ItemsFail \/ ItemsList \/ ItemsEndList
    \/ ItemsSkipTag \/ ItemsRule \/ ItemsSkip \/ ItemsEnd
    \/ ParseStripped

SpecToc == InitToc /\ [][NextToc]_vars

\* The sources that runs of the parser are followed to their end on.
LiveSources ==
    {TocSource(blocks, loose) :
        blocks \in UNION {TocBlocks(n) : n \in 0..MaxTocLive}, loose \in BOOLEAN}

InitTocLive ==
    /\ toc_source \in LiveSources
    /\ toc_events = TocTokenize(toc_source)
    /\ toc_pos = 0
    /\ toc_offset = 0
    /\ toc_pc = "title"
    /\ toc_title = None
    /\ toc_items = <<>>
    /\ item_runs = <<>>
    /\ toc_result = None
    /\ toc_log = <<>>
    /\ toc_first = None
    /\ EntryIdle
    /\ DirIdle
    /\ MetaIdle
    /\ BuildIdle
    /\ CmdIdle
    /\ LoadIdle

\* The parser is single-threaded and nothing stops it: a step that can be
\* taken is taken.
SpecTocLive == InitTocLive /\ [][NextToc]_vars /\ WF_vars(NextToc)

\* The sequences of blocks of n blocks and items in all in which block
\* quotes stand, among thematic breaks, headings of level 2 and lists of
\* links, and the non-empty sequences of such links.
RECURSIVE QuoteBlocks(_)
RECURSIVE QuoteListItems(_)
QuoteBlocks(n) ==
    IF n = 0 THEN {<<>>}
    ELSE UNION {{<<first>> \o rest :
                    first \in (IF m = 1 THEN {RuleNode, HeadingNode(H2)} ELSE {})
                                 \cup {QuoteNode(q) : q \in QuoteBlocks(m - 1)}
                                 \cup {ListNode(l) : l \in QuoteListItems(m)},
                    rest \in QuoteBlocks(n - m)} : m \in 1..n}

QuoteListItems(n) ==
    IF n = 0 THEN {}
    ELSE UNION {{<<first>> \o rest :
                    first \in {LinkNode(r) : r \in QuoteBlocks(m - 1)},
                    rest \in (IF n = m THEN {<<>>} ELSE QuoteListItems(n - m))} :
                        m \in 1..n}

QuotedSources ==
    {TocSource(blocks, loose) :
        blocks \in UNION {QuoteBlocks(n) : n \in 0..MaxToc}, loose \in BOOLEAN}

\* The parser is given a source of the kinds above or one with block quotes.
InitTocQuotes ==
    /\ toc_source \in TocSources \cup QuotedSources
    /\ toc_events = TocTokenize(toc_source)
    /\ toc_pos = 0
    /\ toc_offset = 0
    /\ toc_pc = "title"
    /\ toc_title = None
    /\ toc_items = <<>>
    /\ item_runs = <<>>
    /\ toc_result = None
    /\ toc_log = <<>>
    /\ toc_first = None
    /\ EntryIdle
    /\ DirIdle
    /\ MetaIdle
    /\ BuildIdle
    /\ CmdIdle
    /\ LoadIdle

SpecTocQuotes == InitTocQuotes /\ [][NextToc]_vars

(***************************************************************************)
(* Properties of the TOC parser.                                           *)
(***************************************************************************)
\* What an item is and what it is called.
ItemKey(it) == [kind |-> it.kind, name |-> it.name]

\* The text at an offset of the source, as a heading or a link name has it.
TextAt(start) == <<ParagraphBlock(start)>>

\* The links, level-1 headings and thematic breaks of the source in document
\* order, as the items they can become.
SourceOrder ==
    LET marks == SelectSeq([i \in 1..Len(toc_events) |-> i],
                           LAMBDA i : \/ IsStart(toc_events[i], "Link")
                                      \/ IsStartH1(toc_events[i])
                                      \/ toc_events[i].k = "Rule")
    IN  [n \in 1..Len(marks) |->
            IF toc_events[marks[n]].k = "Rule" THEN ItemKey(Separator)
            ELSE [kind |-> IF toc_events[marks[n]].tag = "Link" THEN "Link"
                           ELSE "SectionTitle",
                  name |-> TextAt(toc_events[marks[n]].start)]]

\* a can be had from b by leaving elements out.
RECURSIVE IsSubsequence(_, _)
IsSubsequence(a, b) ==
    IF a = <<>> THEN TRUE
    ELSE IF b = <<>> THEN FALSE
    ELSE IF Head(a) = Head(b) THEN IsSubsequence(Tail(a), Tail(b))
    ELSE IsSubsequence(a, Tail(b))

RECURSIVE InDocumentOrder(_)
InDocumentOrder(its) ==
    /\ IsSubsequence([i \in 1..Len(its) |-> ItemKey(its[i])], SourceOrder)
    /\ \A i \in 1..Len(its) : InDocumentOrder(its[i].nested_items)

\* C11: the items parse_toc has collected, and the items parse returns, are
\* in the order of their sources in the document (links by name, section
\* titles by heading text, separators by thematic break), and so are the
\* nested items of every link.
C11_ItemsInDocumentOrder ==
    /\ InDocumentOrder(toc_items)
    /\ toc_pc = "ok" => InDocumentOrder(toc_result[1].items)

\* A list of one link, a thematic break and a list of one link parsed to a
\* link, a Separator and a link.
C11_Witness ==
    /\ toc_pc = "ok"
    /\ toc_source.blocks = <<ListNode(<<LinkNode(<<>>)>>), RuleNode, ListNode(<<LinkNode(<<>>)>>)>>
    /\ [i \in 1..Len(toc_result[1].items) |-> toc_result[1].items[i].kind]
           = <<"Link", "Separator", "Link">>
    /\ toc_result[1].items[1].name = TextAt(2)
    /\ toc_result[1].items[3].name = TextAt(2 * LineLen + 2)

\* How many lists are open after the first n events of the source.
ListDepth(n) ==
    Cardinality({i \in 1..n : IsStart(toc_events[i], "List")})
        - Cardinality({i \in 1..n : toc_events[i].k = "End" /\ toc_events[i].tag = "List"})

\* The end of the list that starts at event i.
ListEnd(i) ==
    Min({j \in (i + 1)..Len(toc_events) :
            /\ toc_events[j].k = "End" /\ toc_events[j].tag = "List"
            /\ ListDepth(j) = ListDepth(i) - 1})

\* The names of the links of the items of the list that starts at event i,
\* in order.
ListLinkNames(i) ==
    LET starts == SelectSeq([j \in 1..Len(toc_events) |-> j],
                            LAMBDA j : /\ i < j /\ j < ListEnd(i)
                                       /\ IsStart(toc_events[j], "Item")
                                       /\ ListDepth(j) = ListDepth(i)
                                       /\ IsLinkPayload(toc_events, ItemPayload(j)))
    IN  [n \in 1..Len(starts) |-> TextAt(toc_events[ItemPayload(starts[n])].start)]

\* Every item of a tree of items with the name of the link that holds it
\* (owner for the items at the top).
RECURSIVE Places(_, _)
Places(its, owner) ==
    UNION {{[item |-> its[i], owner |-> owner]}
               \cup Places(its[i].nested_items, its[i].name) : i \in 1..Len(its)}

LinkNames(its) ==
    LET links == SelectSeq(its, LAMBDA it : it.kind = "Link")
    IN  [i \in 1..Len(links) |-> links[i].name]

\* C12: in the items parse returns, for every list start met after a link
\* in the same run, that link is there, the links among its nested_items
\* are the links of the items of that list, in order, and each of them is
\* held by that link and by nothing else.
C12_ListAfterLinkBecomesNestedItems ==
    toc_pc = "ok" =>
        \A n \in DOMAIN toc_log :
            (toc_log[n].what = "list" /\ toc_log[n].outcome = "nest") =>
                LET places == Places(toc_result[1].items, <<>>)
                    names == ListLinkNames(toc_log[n].at)
                IN  /\ \E pl \in places :
                           /\ pl.item.kind = "Link"
                           /\ pl.item.name = toc_log[n].name
                           /\ LinkNames(pl.item.nested_items) = names
                    /\ \A i \in DOMAIN names :
                           {pl.owner : pl \in {q \in places : q.item.name = names[i]}}
                               = {toc_log[n].name}

\* The bullet list with one link followed by an indented sub-list with one
\* link yields one top-level link with one nested link.
C12_Example ==
    (toc_pc = "ok" /\ toc_source.blocks = <<ListNode(<<LinkNode(<<ListNode(<<LinkNode(<<>>)>>)>>)>>)>>)
        => /\ Len(toc_result[1].items) = 1
           /\ toc_result[1].items[1].name = TextAt(2)
           /\ LinkNames(toc_result[1].items[1].nested_items) = <<TextAt(LineLen + 4)>>

\* C13: every level-1 heading start the parser acts on (as the title, as a
\* SectionTitle, or as the end of an item run) lies outside every list of
\* the source, and every SectionTitle collected comes from such a heading.
C13_HeadingsInsideListsIgnored ==
    /\ \A n \in DOMAIN toc_log :
           toc_log[n].what = "heading" => ListDepth(toc_log[n].at) = 0
    /\ \A i \in DOMAIN toc_items :
           toc_items[i].kind = "SectionTitle" =>
               \E j \in DOMAIN toc_events :
                   /\ IsStartH1(toc_events[j])
                   /\ ListDepth(j) = 0
                   /\ toc_items[i].name = TextAt(toc_events[j].start)

\* The list starts that were met while the last item of the run was not a
\* link.
FlatListStarts ==
    {n \in DOMAIN toc_log : toc_log[n].what = "list" /\ toc_log[n].outcome = "flat"}

AllPlaces ==
    Places(toc_items, <<>>)
        \cup UNION {Places(item_runs[d], <<>>) : d \in DOMAIN item_runs}

StrippedLines ==
    {e.start \div LineLen :
        e \in {toc_first[1].events[i] : i \in
                  {j \in DOMAIN toc_first[1].events :
                      \/ toc_first[1].events[j].k = "Html"
                      \/ /\ IsStartHeading(toc_first[1].events[j])
                         /\ toc_first[1].events[j].level >= H2}}}

\* Where the text at an offset of the first source is in the second.
Moved(start) ==
    start - LineLen * Cardinality({l \in StrippedLines : l < start \div LineLen})

\* The items of the first parse, named by where their texts are in the
\* second source.
RECURSIVE MovedItems(_)
MovedItems(its) ==
    [i \in 1..Len(its) |->
        IF its[i].kind = "Separator" THEN its[i]
        ELSE [its[i] EXCEPT
                 !.name = TextAt(Moved(@[1].id)),
                 !.location = IF @ = None THEN None ELSE Some(Href(Moved(@[1][1]))),
                 !.nested_items = MovedItems(@)]]

\* No heading of level 2 to 6 stands before the first level-1 heading,
\* thematic break or list of the first source: the headings are between or
\* after the things that make items.
MinorHeadingsAfterFirstItem ==
    \A j \in DOMAIN toc_first[1].events :
        (IsStartHeading(toc_first[1].events[j]) /\ toc_first[1].events[j].level >= H2) =>
            \E i \in 1..(j - 1) : toc_first[1].events[i].k # "Html"

IsMalformedItem(i) ==
    /\ IsStart(toc_events[i], "Item")
    /\ LET first == Min({j \in (i + 1)..Len(toc_events) :
                            ~(toc_events[j].k = "Start" /\ toc_events[j].tag = "Paragraph")})
       IN  ~(toc_events[first].k = "Start" /\ toc_events[first].tag = "Link")

\* The first thing of a malformed item that is not a paragraph start.
Offending(i) ==
    Min({j \in (i + 1)..Len(toc_events) :
            ~(toc_events[j].k = "Start" /\ toc_events[j].tag = "Paragraph")})

\* C16: as soon as the parser has entered an item whose first event, after
\* paragraph starts, is not a link start, parse has failed; the error carries
\* the line and column position() gives for the offset of that event, and
\* neither a title nor any item is returned.  parse fails in no other case.
C16_MalformedItemFailsParse ==
    /\ \A i \in 1..toc_pos :
           IsMalformedItem(i) =>
               /\ toc_pc = "err"
               /\ toc_pos = Offending(i)
               /\ toc_offset = toc_events[Offending(i)].start
               /\ toc_result = Some(TocErr(Position(toc_events[Offending(i)].start)))
    /\ toc_pc = "err" =>
           /\ \E i \in 1..toc_pos : IsMalformedItem(i)
           /\ ~toc_result[1].ok
           /\ toc_result[1].items = <<>>
           /\ toc_result[1].title = None
    /\ toc_pc = "ok" => toc_result[1].ok /\ toc_result[1].position = None

\* A list of a link and an empty item: parse failed at line 2 after the
\* first link had been parsed, and returned the error alone.
C16_Witness ==
    /\ toc_pc = "err"
    /\ toc_source.blocks = <<ListNode(<<LinkNode(<<>>), EmptyNode>>)>>
    /\ item_runs # <<>>
    /\ item_runs[1] # <<>>
    /\ toc_result[1].position = Some([line |-> 2, column |-> 1])
    /\ toc_result[1].items = <<>>

\* The number of raw-HTML events the source starts with.
LeadingHtml ==
    Min({i \in 1..Len(toc_events) : toc_events[i].k # "Html"} \cup {Len(toc_events) + 1}) - 1

\* The first event that is not raw HTML is a level-1 heading start.
TitleComesFirst ==
    LeadingHtml < Len(toc_events) /\ IsStartHeading(toc_events[LeadingHtml + 1])
        /\ toc_events[LeadingHtml + 1].level = H1

\* The names of the SectionTitles among items.
SectionTitles(its) == {its[i].name : i \in {j \in DOMAIN its : its[j].kind = "SectionTitle"}}

\* The texts of the level-1 headings from event i on.
HeadingsFrom(i) ==
    {TextAt(toc_events[j].start) :
        j \in {n \in i..Len(toc_events) :
                  IsStartHeading(toc_events[n]) /\ toc_events[n].level = H1}}

TitleState ==
    /\ toc_pc = "title" => toc_pos <= LeadingHtml
    /\ toc_pc \notin {"title", "idle"} =>
           /\ toc_title # None <=> TitleComesFirst
           /\ toc_title # None =>
                  /\ toc_title = Some(TextAt(toc_events[LeadingHtml + 1].start))
                  /\ toc_title[1] \notin SectionTitles(toc_items)
    /\ toc_pc = "ok" =>
           /\ toc_result[1].title = toc_title
           /\ SectionTitles(toc_result[1].items)
                  = HeadingsFrom(IF TitleComesFirst THEN LeadingHtml + 2 ELSE 1)

TitleStep ==
    (toc_pc = "title" /\ toc_pc' # "title") =>
        /\ toc_title' = None => toc_pos' = LeadingHtml
        /\ toc_title' # None => toc_pos' = LeadingHtml + 3

\* C17: parse_title consumes nothing but raw HTML before it returns; the
\* title is present exactly when the first event that is not raw HTML is a
\* level-1 heading start, and is then the text of that heading, which is
\* consumed through its end and is no SectionTitle; when there is no title
\* parse_title returns with only the leading raw HTML consumed; and the
\* SectionTitles of a parse that returns are the level-1 headings of the
\* source, the title heading aside.
C17_TitleIsFirstHeading == []TitleState /\ [][TitleStep]_vars

\* A comment, a level-1 heading and another level-1 heading: the first
\* heading is the title and the second the only SectionTitle.
C17_Witness ==
    /\ toc_pc = "ok"
    /\ toc_source.blocks = <<HtmlNode, HeadingNode(H1), HeadingNode(H1)>>
    /\ toc_result[1].title = Some(TextAt(LineLen))
    /\ toc_result[1].items = <<SectionTitle(TextAt(2 * LineLen))>>

(***************************************************************************)
(* The preamble of an entry.                                               *)
(***************************************************************************)
\* The index of the first heading of the parsed document, or one more than
\* its number of blocks.
FirstHeading ==
    Min({i \in 1..Len(ParsedDocument) : ParsedDocument[i].k = "Heading"}
            \cup {Len(ParsedDocument) + 1})

\* The blocks of the parsed document in front of its first heading.
Preamble == SubSeq(ParsedDocument, 1, FirstHeading - 1)

PreambleState ==
    (entry_body # None /\ epc # "parse") =>
        /\ body = IF Preamble = <<>> THEN None ELSE Some(Preamble)
        /\ (epc = "done" /\ FirstHeading > Len(ParsedDocument)) =>
               /\ sections = <<>>
               /\ body = IF ParsedDocument = <<>> THEN None ELSE Some(ParsedDocument)

PreambleStep ==
    (epc = "parse" /\ epc' = "parse_sections") =>
        /\ pos' = 3 * (FirstHeading - 1)
        /\ FirstHeading <= Len(ParsedDocument) => IsStartHeading(events'[pos' + 1])
        /\ FirstHeading > Len(ParsedDocument) => pos' = Len(events')
        /\ sections' = <<>> /\ frames' = <<>>

\* C18: the body of a parsed entry is the text in front of the first heading
\* of the document, and None when there is no such text; when parse_body
\* returns, the cursor stands right in front of the first heading start (at
\* the end of the events when there is no heading) and no section has been
\* parsed; a document without a heading is the body as a whole and yields
\* no section.
C18_PreambleIsTextBeforeFirstHeading == []PreambleState /\ [][PreambleStep]_vars

\* Two paragraphs and then a heading: both paragraphs are the body and the
\* heading is the only section.
C18_Witness ==
    /\ epc = "done"
    /\ entry_body = Some(<<ParagraphBlock(1), ParagraphBlock(2), HeadingBlock(H1, 3)>>)
    /\ body = Some(<<ParagraphBlock(1), ParagraphBlock(2)>>)
    /\ Len(sections) = 1

(***************************************************************************)
(* JournalBuilder::build (crates/dungeon-mark/src/build/mod.rs).  The      *)
(* entries, the preprocessor, the transformer and the renderers are        *)
(* collaborators: what each of them returns is an input of the build.      *)
(***************************************************************************)
RendererNames == {"html", "pdf"}

\* A renderer: its name() and whether its render fails.
Renderer(name, fails) == [name |-> name, fails |-> fails]

\* What the collaborators do: the entry whose load fails and the entry whose
\* parse fails (0: none), and whether the preprocessor and the transformer
\* fail.
Faults(load, preprocess, parse, transform) ==
    [load |-> load, preprocess |-> preprocess, parse |-> parse, transform |-> transform]

\* The error a call returned: the stage, and the entry or renderer.
BuildErr(stage, n, name) == [ok |-> FALSE, stage |-> stage, n |-> n, name |-> name]

BuildOk == [ok |-> TRUE, stage |-> "", n |-> 0, name |-> ""]

\* A call or a return: of a stage (n = 0) or of a renderer (n its place).
Call(stage, what, n, name) == [stage |-> stage, what |-> what, n |-> n, name |-> name]

InitBuild ==
    /\ renderers \in SeqsUpTo({Renderer(n, f) : n \in RendererNames, f \in BOOLEAN},
                              MaxRenderers)
    /\ build_entries \in 0..MaxEntries
    /\ faults \in {Faults(l, p, e, t) : l \in 0..MaxEntries, p \in BOOLEAN,
                                        e \in 0..MaxEntries, t \in BOOLEAN}
    /\ faults.load <= build_entries
    /\ faults.parse <= build_entries
    /\ build_pc = "build"
    /\ build_idx = 0
    /\ build_log = <<>>
    /\ build_result = None
    /\ EntryIdle
    /\ DirIdle
    /\ MetaIdle
    /\ TocIdle
    /\ CmdIdle
    /\ LoadIdle

\* The `?` after a stage, with the mistake of going on after an error.
TryIgnoresErr(failed, next) == next

\* The `?` after a stage: where build goes on after the stage returned.
Try(failed, next) == IF failed THEN "done" ELSE next

\* A stage has returned: its return is logged, the next stage is called
\* when there is one to go on with, and an error is what build returns.
StageReturns(stage, failed, n, next) ==
    LET to == Try(failed, next)
    IN  /\ build_pc' = to
        /\ build_idx' = 0
        /\ build_log' =
               build_log
                   \o <<Call(stage, IF failed THEN "err" ELSE "ok", 0, "")>>
                   \o (IF to = "done" THEN <<>> ELSE <<Call(to, "start", 0, "")>>)
        /\ build_result' =
               IF failed /\ to = "done" THEN Some(BuildErr(stage, n, "")) ELSE build_result

\* build calls load_journal.
BuildStart ==
    /\ build_pc = "build"
    /\ build_pc' = "load"
    /\ build_log' = build_log \o <<Call("load", "start", 0, "")>>
    /\ UNCHANGED <<renderers, build_entries, faults, build_idx, build_result>>
    /\ BuildFrame

\* load_items: JournalEntry::load of the next entry succeeds.
LoadItem ==
    /\ build_pc = "load"
    /\ build_idx < build_entries
    /\ faults.load # build_idx + 1
    /\ build_idx' = build_idx + 1
    /\ UNCHANGED <<renderers, build_entries, faults, build_pc, build_log, build_result>>
    /\ BuildFrame

\* load_items: JournalEntry::load of the next entry fails.
LoadItemFails ==
    /\ build_pc = "load"
    /\ build_idx < build_entries
    /\ faults.load = build_idx + 1
    /\ StageReturns("load", TRUE, build_idx + 1, "preprocess")
    /\ UNCHANGED <<renderers, build_entries, faults>>
    /\ BuildFrame

\* load_journal returns the journal.
LoadDone ==
    /\ build_pc = "load"
    /\ build_idx = build_entries
    /\ StageReturns("load", FALSE, 0, "preprocess")
    /\ UNCHANGED <<renderers, build_entries, faults>>
    /\ BuildFrame

\* preprocess: the try_fold over the one preprocessor.
Preprocess ==
    /\ build_pc = "preprocess"
    /\ StageReturns("preprocess", faults.preprocess, 0, "parse")
    /\ UNCHANGED <<renderers, build_entries, faults>>
    /\ BuildFrame

\* parse_items: the next entry parses.
ParseItem ==
    /\ build_pc = "parse"
    /\ build_idx < build_entries
    /\ faults.parse # build_idx + 1
    /\ build_idx' = build_idx + 1
    /\ UNCHANGED <<renderers, build_entries, faults, build_pc, build_log, build_result>>
    /\ BuildFrame

\* parse_items: the next entry fails to parse.
ParseItemFails ==
    /\ build_pc = "parse"
    /\ build_idx < build_entries
    /\ faults.parse = build_idx + 1
    /\ StageReturns("parse", TRUE, build_idx + 1, "transform")
    /\ UNCHANGED <<renderers, build_entries, faults>>
    /\ BuildFrame

\* parse_items returns the journal.
ParseDone ==
    /\ build_pc = "parse"
    /\ build_idx = build_entries
    /\ StageReturns("parse", FALSE, 0, "transform")
    /\ UNCHANGED <<renderers, build_entries, faults>>
    /\ BuildFrame

\* transform: the try_fold over the one transformer.
Transform ==
    /\ build_pc = "transform"
    /\ StageReturns("transform", faults.transform, 0, "render")
    /\ UNCHANGED <<renderers, build_entries, faults>>
    /\ BuildFrame

\* The loop of render taking the renderers last first.
RendererAtFromBack(rs, i) == rs[Len(rs) + 1 - i]

\* `for renderer in &self.renderers`: the renderer of the i-th pass.
RendererAt(rs, i) == rs[i]

\* render: the next renderer's render is called.
RenderCall ==
    /\ build_pc = "render"
    /\ build_idx < Len(renderers)
    /\ build_pc' = "rendering"
    /\ build_log' =
           build_log
               \o <<Call("render", "call", build_idx + 1,
                         RendererAt(renderers, build_idx + 1).name)>>
    /\ UNCHANGED <<renderers, build_entries, faults, build_idx, build_result>>
    /\ BuildFrame

\* render: the renderer returns Ok and the loop goes on.
RenderReturns ==
    /\ build_pc = "rendering"
    /\ ~RendererAt(renderers, build_idx + 1).fails
    /\ build_pc' = "render"
    /\ build_idx' = build_idx + 1
    /\ build_log' =
           build_log
               \o <<Call("render", "return", build_idx + 1,
                         RendererAt(renderers, build_idx + 1).name)>>
    /\ UNCHANGED <<renderers, build_entries, faults, build_result>>
    /\ BuildFrame

\* render: the renderer returns an error, which `?` makes the result.
RenderFails ==
    /\ build_pc = "rendering"
    /\ RendererAt(renderers, build_idx + 1).fails
    /\ build_pc' = "done"
    /\ build_log' =
           build_log
               \o <<Call("render", "fail", build_idx + 1,
                         RendererAt(renderers, build_idx + 1).name)>>
    /\ build_result' =
           Some(BuildErr("render", build_idx + 1, RendererAt(renderers, build_idx + 1).name))
    /\ UNCHANGED <<renderers, build_entries, faults, build_idx>>
    /\ BuildFrame

\* render: every renderer has returned Ok.
RenderDone ==
    /\ build_pc = "render"
    /\ build_idx = Len(renderers)
    /\ build_pc' = "done"
    /\ build_log' = build_log \o <<Call("render", "ok", 0, "")>>
    /\ build_result' = Some(BuildOk)
    /\ UNCHANGED <<renderers, build_entries, faults, build_idx>>
    /\ BuildFrame

NextBuild ==
    \/ BuildStart
    \/ LoadItem
    \/ LoadItemFails
    \/ LoadDone
    \/ Preprocess
    \/ ParseItem
    \/ ParseItemFails
    \/ ParseDone
    \/ Transform
    \/ RenderCall
    \/ RenderReturns
    \/ RenderFails
    \/ RenderDone

SpecBuild == InitBuild /\ [][NextBuild]_vars

(***************************************************************************)
(* The order of the stages and of the renderers.                           *)
(***************************************************************************)
Stages == <<"load", "preprocess", "parse", "transform", "render">>

\* Where in the log a stage was started, and where it returned Ok.
Starts(stage) ==
    {p \in DOMAIN build_log : build_log[p].stage = stage /\ build_log[p].what = "start"}

Successes(stage) ==
    {p \in DOMAIN build_log : build_log[p].stage = stage /\ build_log[p].what = "ok"}

\* Where in the log a renderer was called.
RendererCalls == {p \in DOMAIN build_log : build_log[p].what = "call"}

\* A collaborator of one of the four stages in front of render fails.
FailsBeforeRender ==
    faults.load # 0 \/ faults.preprocess \/ faults.parse # 0 \/ faults.transform

\* C19: every stage is started at most once; a stage other than load is
\* started only when the stage in front of it was started before and has
\* returned Ok, and nothing has returned an error by then; a renderer is
\* called only after load, preprocess, parse and transform have returned
\* Ok, hence never in a build in which one of them fails; and a build that
\* returns Ok has started all five stages.
C19_StagesInOrderEachOnce ==
    /\ \A k \in DOMAIN Stages : Cardinality(Starts(Stages[k])) <= 1
    /\ \A k \in 2..Len(Stages) : \A p \in Starts(Stages[k]) :
           /\ \E q \in Successes(Stages[k - 1]) :
                  /\ q < p
                  /\ \E o \in Starts(Stages[k - 1]) : o < q
           /\ \A q \in 1..p : build_log[q].what # "err"
    /\ \A p \in RendererCalls :
           /\ \A k \in 1..(Len(Stages) - 1) : \E q \in Successes(Stages[k]) : q < p
           /\ \E q \in Starts("render") : q < p
    /\ FailsBeforeRender =>
           /\ RendererCalls = {}
           /\ Starts("render") = {}
           /\ build_pc = "done" => ~build_result[1].ok /\ build_result[1].stage # "render"
    /\ (build_pc = "done" /\ build_result[1].ok) =>
           \A k \in DOMAIN Stages : Starts(Stages[k]) # {}

\* A build with two renderers whose transformer failed: four stages were
\* started, no renderer was called, and the transformer's error is returned.
C19_Witness ==
    /\ build_pc = "done"
    /\ Len(renderers) = 2
    /\ build_entries = 2
    /\ build_result = Some(BuildErr("transform", 0, ""))
    /\ \A k \in 1..4 : Starts(Stages[k]) # {}
    /\ RendererCalls = {}

\* The calls of renderers and their returns, as places in the log.
RenderLog == {p \in DOMAIN build_log : build_log[p].what \in {"call", "return", "fail"}}

\* The place of p among the calls and returns of renderers, from 1.
RenderRank(p) == Cardinality({q \in RenderLog : q <= p})

\* C20: the i-th call of a renderer is the call of the i-th renderer of the
\* list; every call is followed by the return of that renderer before the
\* next call; a renderer that fails is the last one called, and build then
\* returns the error of that renderer; a build returns Ok only after every
\* renderer of the list has been called and has returned Ok.
C20_RenderersInListOrderFailFast ==
    /\ \A p \in RenderLog :
           LET i == (RenderRank(p) + 1) \div 2
           IN  /\ build_log[p].n = i
               /\ i <= Len(renderers)
               /\ build_log[p].name = renderers[i].name
               /\ (build_log[p].what = "call") <=> (RenderRank(p) % 2 = 1)
               /\ build_log[p].what = "return" => ~renderers[i].fails
               /\ build_log[p].what = "fail" =>
                      /\ renderers[i].fails
                      /\ p = Len(build_log)
                      /\ build_pc = "done"
                      /\ build_result = Some(BuildErr("render", i, renderers[i].name))
    /\ (build_pc = "done" /\ build_result[1].ok) =>
           /\ Cardinality(RenderLog) = 2 * Len(renderers)
           /\ \A i \in DOMAIN renderers : ~renderers[i].fails
    /\ (build_pc = "done" /\ ~build_result[1].ok /\ build_result[1].stage = "render") =>
           /\ renderers[build_result[1].n].fails
           /\ \A i \in 1..(build_result[1].n - 1) : ~renderers[i].fails
           /\ Cardinality(RenderLog) = 2 * build_result[1].n

\* Three renderers of which the second fails: the first was called and
\* returned, the second was called and failed, the third was never called.
C20_Witness ==
    /\ build_pc = "done"
    /\ renderers = <<Renderer("html", FALSE), Renderer("pdf", TRUE), Renderer("html", FALSE)>>
    /\ build_result = Some(BuildErr("render", 2, "pdf"))
    /\ Cardinality(RenderLog) = 4
    /\ Cardinality(RendererCalls) = 2

(***************************************************************************)
(* CommandRenderer (crates/dungeon-mark/src/build/render/command.rs).  The *)
(* operating system and the child process are collaborators: whether the   *)
(* spawn, the write and the wait succeed and the exit code of the child    *)
(* are inputs of a render.  A command string is the sequence of its        *)
(* characters; quoting is left out of the command strings tried.           *)
(***************************************************************************)
\* Shlex::new(command) collected: the words between the whitespace.
RECURSIVE Shlex(_)
Shlex(command) ==
    LET rest == TrimStart(command)
        ends == {i \in 1..Len(rest) : rest[i] \in Whitespace}
        stop == IF ends = {} THEN Len(rest) + 1 ELSE Min(ends)
    IN  IF rest = <<>> THEN <<>>
        ELSE <<SubSeq(rest, 1, stop - 1)>> \o Shlex(SubSeq(rest, stop, Len(rest)))

Root == <<"r">>

PathSeparator == "/"

\* bin.components().count() == 1: the path is one name.
IsOneComponent(bin) == \A i \in 1..Len(bin) : bin[i] # PathSeparator

\* build_command's choice of the executable: a name is searched in PATH,
\* another path is joined to the project root.
Executable(bin, root) ==
    IF IsOneComponent(bin) THEN bin ELSE root \o <<PathSeparator>> \o bin

\* The Result of render.
CmdErr(kind, name) == [ok |-> FALSE, kind |-> kind, name |-> name]

CmdOk == [ok |-> TRUE, kind |-> "", name |-> ""]

\* A child process as the renderer sees it.
Process(program, args, stdin, received) ==
    [program |-> program, args |-> args, stdin |-> stdin, received |-> received]

\* A step of render and whether it succeeded.
CmdStep(step, ok) == [step |-> step, ok |-> ok]

CommandStrings ==
    {<<>>, <<" ">>, <<"t">>, <<"t", " ", "a">>, <<"d", "/", "t">>, <<" ", "d", "/", "t", " ", "a">>}

Worlds ==
    [spawn : BOOLEAN, write : BOOLEAN, wait : BOOLEAN, code : 0..MaxExit]

InitCommand ==
    /\ cmd_renderer \in [name : RendererNames, command : CommandStrings]
    /\ cmd_world \in Worlds
    /\ cmd_pc = "render"
    /\ cmd_process = None
    /\ cmd_log = <<>>
    /\ cmd_result = None
    /\ EntryIdle
    /\ DirIdle
    /\ MetaIdle
    /\ TocIdle
    /\ BuildIdle
    /\ LoadIdle

\* build_command bails: the command string holds no word.
CommandEmpty ==
    /\ cmd_pc = "render"
    /\ Shlex(cmd_renderer.command) = <<>>
    /\ cmd_pc' = "done"
    /\ cmd_log' = cmd_log \o <<CmdStep("build_command", FALSE)>>
    /\ cmd_result' = Some(CmdErr("empty", ""))
    /\ UNCHANGED <<cmd_renderer, cmd_world, cmd_process>>
    /\ CmdFrame

\* build_command returns a command and spawn fails.
SpawnFails ==
    /\ cmd_pc = "render"
    /\ Shlex(cmd_renderer.command) # <<>>
    /\ ~cmd_world.spawn
    /\ cmd_pc' = "done"
    /\ cmd_log' = cmd_log \o <<CmdStep("build_command", TRUE), CmdStep("spawn", FALSE)>>
    /\ cmd_result' = Some(CmdErr("spawn", ""))
    /\ UNCHANGED <<cmd_renderer, cmd_world, cmd_process>>
    /\ CmdFrame

\* build_command returns a command and the process is spawned with a piped
\* standard input.
Spawn ==
    /\ cmd_pc = "render"
    /\ Shlex(cmd_renderer.command) # <<>>
    /\ cmd_world.spawn
    /\ LET parts == Shlex(cmd_renderer.command)
       IN  cmd_process' =
               Some(Process(Executable(Head(parts), Root), Tail(parts), "piped", FALSE))
    /\ cmd_pc' = "spawned"
    /\ cmd_log' = cmd_log \o <<CmdStep("build_command", TRUE), CmdStep("spawn", TRUE)>>
    /\ UNCHANGED <<cmd_renderer, cmd_world, cmd_result>>
    /\ CmdFrame

\* serde_json::to_writer(&mut stdin, &ctx): an error is printed by dbg! and
\* render goes on.
WriteJson ==
    /\ cmd_pc = "spawned"
    /\ cmd_process' = Some([cmd_process[1] EXCEPT !.received = cmd_world.write])
    /\ cmd_pc' = "written"
    /\ cmd_log' = cmd_log \o <<CmdStep("write", cmd_world.write)>>
    /\ UNCHANGED <<cmd_renderer, cmd_world, cmd_result>>
    /\ CmdFrame

\* drop(stdin): the pipe is closed.
CloseStdin ==
    /\ cmd_pc = "written"
    /\ cmd_process' = Some([cmd_process[1] EXCEPT !.stdin = "closed"])
    /\ cmd_pc' = "closed"
    /\ cmd_log' = cmd_log \o <<CmdStep("close", TRUE)>>
    /\ UNCHANGED <<cmd_renderer, cmd_world, cmd_result>>
    /\ CmdFrame

\* process.wait() fails.
WaitFails ==
    /\ cmd_pc = "closed"
    /\ ~cmd_world.wait
    /\ cmd_pc' = "done"
    /\ cmd_log' = cmd_log \o <<CmdStep("wait", FALSE)>>
    /\ cmd_result' = Some(CmdErr("wait", ""))
    /\ UNCHANGED <<cmd_renderer, cmd_world, cmd_process>>
    /\ CmdFrame

\* An exit status that counts as success whatever the code.
SuccessAlways(code) == TRUE

\* ExitStatus::success.
Success(code) == code = 0

\* process.wait() returns the exit status, which decides the result.
Wait ==
    /\ cmd_pc = "closed"
    /\ cmd_world.wait
    /\ cmd_pc' = "done"
    /\ cmd_log' = cmd_log \o <<CmdStep("wait", TRUE), CmdStep("status", Success(cmd_world.code))>>
    /\ cmd_result' =
           IF Success(cmd_world.code)
           THEN Some(CmdOk)
           ELSE Some(CmdErr("status", cmd_renderer.name))
    /\ UNCHANGED <<cmd_renderer, cmd_world, cmd_process>>
    /\ CmdFrame

NextCommand ==
    \/ CommandEmpty
    \/ SpawnFails
    \/ Spawn
    \/ WriteJson
    \/ CloseStdin
    \/ WaitFails
    \/ Wait

SpecCommand == InitCommand /\ [][NextCommand]_vars

(***************************************************************************)
(* The steps of a command renderer and the errors of a build.              *)
(***************************************************************************)
\* Where in the log render took a step.
StepAt(step) == {p \in DOMAIN cmd_log : cmd_log[p].step = step}

\* The steps that did not succeed, as places in the log.
FailedSteps == {p \in DOMAIN cmd_log : ~cmd_log[p].ok}

\* C21: when render has returned and one of its steps failed (building or
\* spawning the command, writing the JSON document, waiting, a non-zero exit
\* status), it has returned an error, and render took no step after the
\* first step that failed.
C21_NoErrorSilentlyRecovered ==
    (cmd_pc = "done" /\ FailedSteps # {}) =>
        /\ ~cmd_result[1].ok
        /\ Min(FailedSteps) = Len(cmd_log)

\* C23: spawn, write, close and wait are taken at most once each and in
\* this order, each only after the one before it; the process is spawned
\* with a piped standard input, the pipe is open when the document is
\* written and closed before the wait; the result is an error naming the
\* renderer exactly when the wait returned a non-zero exit code; and a
\* command string without a word fails with no process spawned.
C23_SpawnWriteCloseWait ==
    /\ \A st \in {"spawn", "write", "close", "wait"} : Cardinality(StepAt(st)) <= 1
    /\ \A p \in StepAt("write") : \E q \in StepAt("spawn") : q < p /\ cmd_log[q].ok
    /\ \A p \in StepAt("close") : \E q \in StepAt("write") : q < p
    /\ \A p \in StepAt("wait") : \E q \in StepAt("close") : q < p
    /\ cmd_pc = "spawned" => cmd_process # None /\ cmd_process[1].stdin = "piped"
    /\ (StepAt("write") # {} /\ StepAt("close") = {}) => cmd_process[1].stdin = "piped"
    /\ StepAt("wait") # {} => cmd_process[1].stdin = "closed"
    /\ cmd_pc = "done" =>
           /\ (~cmd_result[1].ok /\ cmd_result[1].name = cmd_renderer.name)
                  <=> (StepAt("wait") # {} /\ cmd_world.wait /\ cmd_world.code # 0)
           /\ cmd_result[1].ok <=> (StepAt("wait") # {} /\ cmd_world.wait /\ cmd_world.code = 0)
           /\ (\A i \in DOMAIN cmd_renderer.command : cmd_renderer.command[i] = " ") =>
                  /\ cmd_process = None
                  /\ StepAt("spawn") = {}
                  /\ cmd_result = Some(CmdErr("empty", ""))

\* A renderer whose process took the document and exited with code 2: all
\* four steps were taken and the error names the renderer.
C23_Witness ==
    /\ cmd_pc = "done"
    /\ cmd_renderer.command = <<" ", "d", "/", "t", " ", "a">>
    /\ cmd_process = Some(Process(<<"r", "/", "d", "/", "t">>, <<<<"a">>>>, "closed", TRUE))
    /\ cmd_world.code = 2
    /\ cmd_result = Some(CmdErr("status", cmd_renderer.name))
    /\ Len(cmd_log) = 6

(***************************************************************************)
(* JournalBuilder::load_journal and load_items                             *)
(* (crates/dungeon-mark/src/build/mod.rs).  The name of an item of the     *)
(* table of contents is its path in the tree, so that every item is        *)
(* traceable; the file system is the set of locations that cannot be read. *)
(***************************************************************************)
\* A link at a path of the tree: with its path as location, or with none.
LinkAt(path, located, nested) ==
    TOCItem("Link", path, IF located THEN Some(path) ELSE None, nested)

\* The lists of items that stand at path \o <<i>>, path \o <<i + 1>>, ...
\* and hold at most n items, nested ones included.
RECURSIVE TocItemLists(_, _, _)
TocItemLists(n, path, i) ==
    {<<>>} \cup
    UNION {UNION {{<<first>> \o rest : rest \in TocItemLists(n - k, path, i + 1)} :
                     first \in
                         {SectionTitle(path \o <<i>>), Separator}
                             \cup {LinkAt(path \o <<i>>, located, nested) :
                                      located \in BOOLEAN,
                                      nested \in TocItemLists(k - 1, path \o <<i>>, 1)}} :
              k \in 1..n}

\* JournalItem::ChapterTitle.
ChapterTitle(title) ==
    [kind |-> "ChapterTitle", title |-> title, body |-> None, path |-> None,
     sections |-> <<>>]

\* fs::read_to_string of the file at a location.
FileAt(location) == <<"f">> \o location

\* JournalEntry::load: the entry of a link whose file was read.
LoadedEntry(link) == EntryItem(link.name, Some(FileAt(link.location[1])), link.location)

Loaded(its) == [ok |-> TRUE, items |-> its, failed |-> None]

LoadFailed(location) == [ok |-> FALSE, items |-> <<>>, failed |-> Some(location)]

\* load_items: the journal items of a list of TOC items, or the error of
\* the first file that cannot be read.
RECURSIVE LoadItems(_, _)
LoadItems(toc_items_, unreadable) ==
    IF toc_items_ = <<>> THEN Loaded(<<>>)
    ELSE LET it == Head(toc_items_)
             first ==
                 IF it.kind = "Link"
                 THEN IF it.location = None THEN Loaded(<<>>)
                      ELSE IF it.location[1] \in unreadable
                           THEN LoadFailed(it.location[1])
                           ELSE LET nested == LoadItems(it.nested_items, unreadable)
                                IN  IF nested.ok
                                    THEN Loaded(<<LoadedEntry(it)>> \o nested.items)
                                    ELSE nested
                 ELSE IF it.kind = "SectionTitle"
                      THEN Loaded(<<ChapterTitle(it.name)>>)
                      ELSE Loaded(<<OtherItem>>)
         IN  IF ~first.ok THEN first
             ELSE LET rest == LoadItems(Tail(toc_items_), unreadable)
                  IN  IF rest.ok THEN Loaded(first.items \o rest.items) ELSE rest

JournalTitle == <<"J">>

InitLoad ==
    /\ load_toc \in [title : {None, Some(JournalTitle)},
                     items : TocItemLists(MaxTocItems, <<>>, 1)]
    /\ load_unreadable \in SUBSET {<<1>>, <<1, 1>>}
    /\ load_pc = "load"
    /\ load_result = None
    /\ EntryIdle
    /\ DirIdle
    /\ MetaIdle
    /\ TocIdle
    /\ BuildIdle
    /\ CmdIdle

\* load_journal: every file was read and the journal is returned.
LoadJournal ==
    /\ load_pc = "load"
    /\ LET loaded == LoadItems(load_toc.items, load_unreadable)
       IN  /\ loaded.ok
           /\ load_result' =
                  Some([ok |-> TRUE, title |-> load_toc.title, items |-> loaded.items,
                        failed |-> None])
    /\ load_pc' = "done"
    /\ UNCHANGED <<load_toc, load_unreadable>>
    /\ LoadFrame

\* load_journal: a file could not be read and the error is returned.
LoadJournalFails ==
    /\ load_pc = "load"
    /\ LET loaded == LoadItems(load_toc.items, load_unreadable)
       IN  /\ ~loaded.ok
           /\ load_result' =
                  Some([ok |-> FALSE, title |-> None, items |-> <<>>,
                        failed |-> loaded.failed])
    /\ load_pc' = "done"
    /\ UNCHANGED <<load_toc, load_unreadable>>
    /\ LoadFrame

NextLoad ==
    \/ LoadJournal
    \/ LoadJournalFails

SpecLoad == InitLoad /\ [][NextLoad]_vars

(***************************************************************************)
(* The journal that is loaded from a table of contents.                    *)
(***************************************************************************)
\* The items of a tree in pre-order: an item, then the items nested in it.
RECURSIVE PreOrder(_)
PreOrder(its) ==
    IF its = <<>> THEN <<>>
    ELSE <<Head(its)>> \o PreOrder(Head(its).nested_items) \o PreOrder(Tail(its))

\* What a journal item is the image of: the kind and the name of a TOC item.
ImageOf(journal_item) ==
    IF journal_item.kind = "Entry" THEN [kind |-> "Link", name |-> journal_item.path[1]]
    ELSE IF journal_item.kind = "ChapterTitle"
         THEN [kind |-> "SectionTitle", name |-> journal_item.title]
         ELSE [kind |-> "Separator", name |-> <<>>]

\* The items of the table of contents that the journal mirrors, in
\* pre-order: every item but the links without a location.
Mirrored ==
    LET all  == PreOrder(load_toc.items)
        kept == SelectSeq(all, LAMBDA it : it.kind # "Link" \/ it.location # None)
    IN  [i \in 1..Len(kept) |-> ItemKey(kept[i])]

\* C22: a journal that was loaded holds, in pre-order of the table of
\* contents, one Entry for every Link that has a location, at every nesting
\* depth, a ChapterTitle for every SectionTitle and a Separator for every
\* Separator, and nothing else; its title is the title of the table of
\* contents.
C22_JournalMirrorsToc ==
    (load_pc = "done" /\ load_result[1].ok) =>
        /\ load_result[1].title = load_toc.title
        /\ [i \in 1..Len(load_result[1].items) |-> ImageOf(load_result[1].items[i])]
               = Mirrored

(***************************************************************************)
(* The section tree against the headings of the document.                  *)
(***************************************************************************)
\* The block a section was opened by: the one its title is the text of.
HeadingOf(sec) == sec.title[1].id

\* The headings of the parsed document, as indices of its blocks.
Headings == {i \in 1..Len(ParsedDocument) : ParsedDocument[i].k = "Heading"}

\* The nearest heading in front of heading i whose level is strictly
\* smaller, 0 when there is none.
ReferenceParent(i) ==
    LET smaller == {j \in Headings : j < i /\ ParsedDocument[j].level < ParsedDocument[i].level}
    IN  IF smaller = {} THEN 0 ELSE Max(smaller)

\* The pairs <<heading, heading of the parent>> of a tree, 0 for no parent.
RECURSIVE ParentPairs(_, _)
ParentPairs(secs, parent) ==
    UNION {{<<HeadingOf(secs[i]), parent>>} \cup ParentPairs(secs[i].sections, HeadingOf(secs[i])) :
              i \in 1..Len(secs)}

\* Siblings stand in the order of their headings, at every depth.
RECURSIVE SiblingsInOrder(_)
SiblingsInOrder(secs) ==
    /\ \A i \in 1..(Len(secs) - 1) : HeadingOf(secs[i]) < HeadingOf(secs[i + 1])
    /\ \A i \in 1..Len(secs) : SiblingsInOrder(secs[i].sections)

\* C24: in the parsed tree the parent of every section is the nearest
\* heading in front of it whose level is strictly smaller than its own, a
\* section without such a heading is a top-level section, and the children
\* of a section, like the top-level sections, are in document order.
C24_TreeIsReferenceNesting ==
    epc = "done" =>
        /\ ParentPairs(sections, 0) = {<<i, ReferenceParent(i)>> : i \in Headings}
        /\ SiblingsInOrder(sections)

\* H2, H3, H3, H1: the two H3 are the children of the H2, in order, and the
\* H1 is a second top-level section.
C24_Witness ==
    /\ epc = "done"
    /\ HeadingLevels(ParsedDocument) = <<2, 3, 3, 1>>
    /\ Len(sections) = 2
    /\ Len(sections[1].sections) = 2
    /\ HeadingOf(sections[1].sections[1]) = 2
    /\ HeadingOf(sections[1].sections[2]) = 3

\* The sections of a tree in pre-order.
RECURSIVE PreOrderSections(_)
PreOrderSections(secs) ==
    IF secs = <<>> THEN <<>>
    ELSE <<Head(secs)>> \o PreOrderSections(Head(secs).sections)
             \o PreOrderSections(Tail(secs))

\* The blocks between heading i and the next heading of the document.
TextUnder(i) ==
    LET later == {j \in Headings : j > i}
        stop  == IF later = {} THEN Len(ParsedDocument) + 1 ELSE Min(later)
    IN  SubSeq(ParsedDocument, i + 1, stop - 1)

\* The headings of the document in order.
HeadingsInOrder == SelectSeq([i \in 1..Len(ParsedDocument) |-> i], LAMBDA i : i \in Headings)

\* C25: the pre-order traversal of the parsed tree lists one section per
\* heading of the document, in document order, each with the text and the
\* level of its heading as title and level; the body of a section is the
\* text between its heading and the next heading, whatever the level of
\* that heading; and the body of the entry is the text in front of the
\* first heading.  So every block of text is in exactly one place.
C25_NothingLostNothingDuplicated ==
    (epc = "done" /\ entry_body # None) =>
        LET pre == PreOrderSections(sections)
        IN  /\ [i \in 1..Len(pre) |-> HeadingOf(pre[i])] = HeadingsInOrder
            /\ \A i \in 1..Len(pre) :
                   /\ pre[i].title = <<ParagraphBlock(HeadingOf(pre[i]))>>
                   /\ pre[i].level = ParsedDocument[HeadingOf(pre[i])].level
                   /\ pre[i].body = TextUnder(HeadingOf(pre[i]))
            /\ body = (IF Preamble = <<>> THEN None ELSE Some(Preamble))

\* A paragraph, an H1, an H2 with a paragraph under it, all in their place:
\* the paragraph under the H2 is in the body of the H2 and not of the H1.
C25_Witness ==
    /\ epc = "done"
    /\ entry_body = Some(MarkdownOf(<<Paragraph, H1, H2, Paragraph>>))
    /\ body = Some(<<ParagraphBlock(1)>>)
    /\ Len(sections) = 1
    /\ sections[1].body = <<>>
    /\ sections[1].sections[1].body = <<ParagraphBlock(4)>>

\* C26: the top-level loop of parse_sections never takes an event that is
\* not a heading start: whenever it is about to take the next event, the
\* stream is exhausted or that event is a heading start, and so nothing is
\* ever ignored.
C26_IgnoreBranchNeverTaken ==
    /\ ignored = <<>>
    /\ (epc = "parse_sections" /\ frames = <<>>) =>
           IF PeekEvent(events, pos) = None THEN TRUE
           ELSE IsStartHeading(PeekEvent(events, pos)[1])

\* The top-level loop takes a second heading start after a section with a
\* paragraph under it was returned.
C26_Witness ==
    /\ epc = "parse_sections"
    /\ frames = <<>>
    /\ entry_body = Some(MarkdownOf(<<Paragraph, H1, Paragraph, H1>>))
    /\ Len(sections) = 1
    /\ PeekEvent(events, pos) # None
    /\ IsStartHeading(PeekEvent(events, pos)[1])

(***************************************************************************)
(* Skipped tags, lost links, termination and positions of the TOC parser.  *)
(***************************************************************************)
\* Event i is the start (the end) of a tag equal to the one started at s.
OpensSame(s, i) ==
    /\ toc_events[i].k = "Start"
    /\ toc_events[i].tag = toc_events[s].tag
    /\ toc_events[i].level = toc_events[s].level
    /\ toc_events[i].info = toc_events[s].info

ClosesSame(s, i) ==
    /\ toc_events[i].k = "End"
    /\ toc_events[i].tag = toc_events[s].tag
    /\ toc_events[i].level = toc_events[s].level
    /\ toc_events[i].info = toc_events[s].info

\* The end tag that matches the start tag at s: the first one at which as
\* many equal tags were ended as were started.
BalancedEnd(s) ==
    Min({i \in (s + 1)..Len(toc_events) :
            /\ ClosesSame(s, i)
            /\ Cardinality({j \in s..i : OpensSame(s, j)})
                   = Cardinality({j \in s..i : ClosesSame(s, j)})})

\* The block quotes that stand outside every other block quote.
OuterQuotes ==
    {s \in DOMAIN toc_events :
        /\ IsStart(toc_events[s], "BlockQuote")
        /\ \A o \in 1..(s - 1) :
               IsStart(toc_events[o], "BlockQuote") => BalancedEnd(o) < s}

\* The names of the links between a start tag and its matching end.
NamesInside(s) ==
    {TextAt(toc_events[i].start) :
        i \in {j \in s..BalancedEnd(s) : IsStart(toc_events[j], "Link")}}

\* The next event is a start tag that parse_toc_items has no arm for.
AtOtherStartTag ==
    /\ toc_pc = "items"
    /\ TocPeek # None
    /\ TocPeek[1].k = "Start"
    /\ ~IsStartH1(TocPeek[1])
    /\ TocPeek[1].tag \notin {"Item", "List"}

SkipsThroughMatchingEnd == AtOtherStartTag => toc_pos' = BalancedEnd(toc_pos + 1)

NoItemFromSkipped ==
    \A s \in OuterQuotes :
        \A place \in AllPlaces : place.item.name \notin NamesInside(s)

\* C27: when the next event of parse_toc_items is a start tag it has no arm
\* for, the step consumes the events through the end tag that matches that
\* start tag, tags equal to it that are nested in the pair counted; and no
\* link inside a block quote is an item.
C27_SkipsThroughMatchingEnd == []NoItemFromSkipped /\ [][SkipsThroughMatchingEnd]_vars

\* The list items of the source whose payload is a link, as the events
\* they start at.
LinkItems == {i \in DOMAIN toc_events : IsStart(toc_events[i], "Item") /\ ~IsMalformedItem(i)}

\* The name of the link of the item that starts at event i.
LinkNameOf(i) == TextAt(toc_events[Offending(i)].start)

\* The name of the link of the list item that encloses the item at event i,
\* <<>> when the item is in a list at the top.
EnclosingLink(i) ==
    LET around == {s \in LinkItems : s < i /\ BalancedEnd(s) > i}
    IN  IF around = {} THEN <<>> ELSE LinkNameOf(Max(around))

\* C28: in the items parse returns, every list item of the source whose
\* payload is a link is there exactly once, at the top or among the
\* nested_items of the link of the list item that encloses it.
C28_NoLinkLostOrDuplicated ==
    toc_pc = "ok" =>
        \A i \in LinkItems :
            LET all == PreOrder(toc_result[1].items)
            IN  /\ Cardinality({n \in DOMAIN all :
                                   all[n].kind = "Link" /\ all[n].name = LinkNameOf(i)}) = 1
                /\ \E place \in Places(toc_result[1].items, <<>>) :
                       /\ place.item.kind = "Link"
                       /\ place.item.name = LinkNameOf(i)
                       /\ place.owner \in {<<>>, EnclosingLink(i)}

\* parse is running.
Parsing == toc_pc \in {"title", "toc", "items"}

\* How many steps that consume nothing the parser can take where it is: the
\* returns of the running calls when the next event ends the runs, the
\* return of parse, the call of the item run.
Rank ==
    CASE toc_pc = "title" -> 2
      [] toc_pc = "toc" -> 1
      [] toc_pc = "items" ->
            IF TocPeek = None \/ PeekIsStartH1 THEN 1 + Len(item_runs) ELSE 0
      [] OTHER -> 0

\* The events left, weighted above every rank, and the rank.
Measure == (Len(toc_events) - toc_pos) * (Len(toc_events) + 3) + Rank

StepsDescend ==
    Parsing =>
        /\ Measure' < Measure
        /\ toc_pc = "items" =>
               \/ toc_pos' > toc_pos
               \/ toc_pc' # "items"
               \/ Len(item_runs') < Len(item_runs)
        /\ TocPeek = None => toc_pos' = toc_pos /\ Len(item_runs') < Len(item_runs) + 1

\* C29: every step of parse_title, of the body loop and of the item-run
\* loop at any depth consumes an event or makes a measure of the calls that
\* are left smaller, and a step of the item-run loop consumes an event or
\* leaves the loop; so parse returns: from some point on the parser has
\* returned a result or an error for good.
C29_ParseTerminates ==
    [][StepsDescend]_vars /\ <>[](toc_pc \in {"ok", "err"})

\* parse has returned for a source of a list in a list, after item runs two
\* deep.
C29_Witness ==
    /\ toc_pc = "ok"
    /\ toc_pos = Len(toc_events)
    /\ \E n \in DOMAIN toc_log : toc_log[n].depth = 2
    /\ toc_result[1].items # <<>>

\* The characters between the last newline before offset, or the start of
\* the source when there is none, and offset.
SinceNewline(offset) == offset % LineLen

\* C30: position() gives, for the start offset of every consumed event, the
\* line as the number of newlines before the offset plus one and the column
\* as the number of characters since the last newline, counted from the same
\* base on the first line as on every later line.
C30_PositionSameBaseOnEveryLine ==
    \E base \in 0..1 :
        \A n \in 1..toc_pos :
            LET offset == toc_events[n].start
            IN  Position(offset) =
                    [line |-> offset \div LineLen + 1,
                     column |-> SinceNewline(offset) + base]

====
